---------------------------- MODULE Spec2Model ----------------------------
(***************************************************************************)
(* Model of the LambdaDB vector store adapter (langchain-lambdadb-js):     *)
(* the retry executor (withRetry), the error classifier                    *)
(* (handleLambdaDBError), the collection lifecycle (createCollection,      *)
(* waitForCollectionActive, ensureCollectionExists) and the write path     *)
(* (addVectors) of LambdaDBVectorStore.                                    *)
(*                                                                         *)
(* One caller runs one public operation at a time.  An action is the code  *)
(* that runs between two suspension points (an awaited remote call or an   *)
(* awaited timer); the remote service changes state on its own between     *)
(* them.  Strings that the code searches with String.includes are          *)
(* sequences of tokens; milliseconds are integers.  A second caller, whose *)
(* operation runs interleaved with the first caller's at the suspension    *)
(* points, is held by the variable other.                                  *)
(***************************************************************************)
EXTENDS Integers, Sequences, FiniteSets, TLC

VARIABLES
    pc,       \* where the caller is suspended: "idle" or an await site
    frames,   \* the call stack of the running operation, outermost first
    result,   \* how the last public operation completed
    retry,    \* the local state of the running withRetry call
    wait,     \* the local state of the running waitForCollectionActive call
    ens,      \* what ensureCollectionExists observed in this addVectors call
    av,       \* the local state of the running addDocuments/addVectors call
    remote,   \* the collection's state in the remote service
    upserts,  \* the upsert requests the service received, in order
    retryOptions,  \* LambdaDBVectorStore.retryOptions, fixed at construction
    storeConfig,   \* LambdaDBVectorStore.config, fixed at construction
    requests, \* the query and delete requests the service received, in order
    other     \* the suspended operation of a second caller of the same store

vars == <<pc, frames, result, retry, wait, ens, av, remote, upserts,
          retryOptions, storeConfig, requests, other>>

----------------------------------------------------------------------------
(* Bounds of the model. *)

\* The largest maxAttempts a caller configures.
MaxAttempts == 6

\* The largest number of vectors one addVectors call submits.
MaxVectors == 1

\* The largest number of vectors of mixed lengths, and of texts, that one
\* call of the data path submits.
MaxMixed == 2

\* The largest number of full chunks one bulk addVectors call submits.
MaxChunks == 2

----------------------------------------------------------------------------
(* Errors.  An error value is a record; cls is the constructor (what       *)
(* instanceof sees; "Object" is a thrown value that is no Error), status   *)
(* and statusCode are 0 when absent, message and bodyMessage (body.message)*)
(* are <<>> when absent or empty, hdr is <<>> without a retry-after header *)
(* and <<h>> with the header string h (a sequence of characters),          *)
(* retryAfter is <<>> when undefined and <<n>> when it holds the number n, *)
(* orig is <<>> or <<originalError>>.                                      *)

Err(cls, name, message, code, status, hdr, retryAfter, orig) ==
    [cls |-> cls, name |-> name, message |-> message, code |-> code,
     status |-> status, statusCode |-> 0, bodyMessage |-> <<>>, hdr |-> hdr,
     retryAfter |-> retryAfter, orig |-> orig]

\* new Error(message)
PlainError(message) == Err("Error", "Error", message, "", 0, <<>>, <<>>, <<>>)

\* The typed error classes.
LambdaDBConnectionError(message, orig) ==
    Err("LambdaDBConnectionError", "LambdaDBConnectionError", message, "", 0,
        <<>>, <<>>, orig)

LambdaDBAuthenticationError(message, orig) ==
    Err("LambdaDBAuthenticationError", "LambdaDBAuthenticationError", message,
        "", 0, <<>>, <<>>, orig)

LambdaDBResourceNotFoundError(message, orig) ==
    Err("LambdaDBResourceNotFoundError", "LambdaDBResourceNotFoundError",
        message, "", 0, <<>>, <<>>, orig)

LambdaDBValidationError(message, orig) ==
    Err("LambdaDBValidationError", "LambdaDBValidationError", message, "", 0,
        <<>>, <<>>, orig)

\* LambdaDBRateLimitError keeping the HTTP status on the typed error.
LambdaDBRateLimitErrorWithStatus(message, retryAfter, orig) ==
    Err("LambdaDBRateLimitError", "LambdaDBRateLimitError", message, "", 429,
        <<>>, retryAfter, orig)

LambdaDBRateLimitError(message, retryAfter, orig) ==
    Err("LambdaDBRateLimitError", "LambdaDBRateLimitError", message, "", 0,
        <<>>, retryAfter, orig)

\* A transport error of the client SDK carrying an HTTP status.
HttpError(status, message, hdr) ==
    Err("Error", "APIError", message, "", status, hdr, <<>>, <<>>)

\* A network error carrying a system code.
NetError(code, message) ==
    Err("Error", "Error", message, code, 0, <<>>, <<>>, <<>>)

\* String.prototype.includes on token sequences.
Includes(message, token) == \E i \in DOMAIN message : message[i] = token

\* a || b on strings: the empty string is falsy.
OrElse(a, b) == IF a # "" THEN a ELSE b


----------------------------------------------------------------------------
(* The error classifier. *)

\* The value of a decimal digit, -1 for any other character.
DigitValue(ch) ==
    CASE ch = "0" -> 0 [] ch = "1" -> 1 [] ch = "2" -> 2 [] ch = "3" -> 3
      [] ch = "4" -> 4 [] ch = "5" -> 5 [] ch = "6" -> 6 [] ch = "7" -> 7
      [] ch = "8" -> 8 [] ch = "9" -> 9 [] OTHER -> -1

\* The number NaN: no header of the model parses to this integer.
NaN == -999999

RECURSIVE ParseDigits(_, _, _, _)
\* The digits of str from position i on, up to the first other character.
ParseDigits(str, i, acc, seen) ==
    IF i <= Len(str) /\ DigitValue(str[i]) >= 0
    THEN ParseDigits(str, i + 1, acc * 10 + DigitValue(str[i]), TRUE)
    ELSE IF seen THEN acc ELSE NaN

RECURSIVE SkipSpaces(_, _)
SkipSpaces(str, i) ==
    IF i <= Len(str) /\ str[i] = " " THEN SkipSpaces(str, i + 1) ELSE i

\* parseInt(str) for a decimal string: leading spaces, an optional sign, then
\* the digits up to the first other character; NaN without a digit.
parseInt(str) ==
    LET i == SkipSpaces(str, 1)
        signed == i <= Len(str) /\ str[i] \in {"-", "+"}
        n == ParseDigits(str, IF signed THEN i + 1 ELSE i, 0, FALSE)
    IN  IF n # NaN /\ signed /\ str[i] = "-" THEN 0 - n ELSE n

\* handleLambdaDBError testing the error's name and code before its status.
handleLambdaDBErrorNameFirst(error) ==
    LET status == IF error.status # 0 THEN error.status ELSE error.statusCode
        message == IF error.message # <<>> THEN error.message
                   ELSE IF error.bodyMessage # <<>> THEN error.bodyMessage
                   ELSE <<"Unknown error">>
        retryAfter == IF error.hdr # <<>> /\ error.hdr[1] # <<>>
                      THEN <<parseInt(error.hdr[1])>>
                      ELSE <<>>
    IN  CASE error.name \in {"LambdaDBError", "UnauthenticatedError"} ->
               LambdaDBAuthenticationError(
                   <<"LambdaDB Error:">> \o error.message, <<error>>)
          [] error.name = "ResourceNotFoundError" ->
               LambdaDBResourceNotFoundError(
                   <<"Resource not found:">> \o error.message, <<error>>)
          [] error.code \in {"ECONNREFUSED", "ENOTFOUND"} ->
               LambdaDBConnectionError(
                   <<"Connection failed:">> \o error.message, <<error>>)
          [] status \in {401, 403} ->
               LambdaDBAuthenticationError(
                   <<"Authentication failed:">> \o message, <<error>>)
          [] status = 404 ->
               LambdaDBResourceNotFoundError(
                   <<"Resource not found:">> \o message, <<error>>)
          [] status = 400 ->
               LambdaDBValidationError(
                   <<"Validation error:">> \o message, <<error>>)
          [] status = 429 ->
               LambdaDBRateLimitError(
                   <<"Rate limit exceeded:">> \o message, retryAfter, <<error>>)
          [] status \in {500, 502, 503, 504} ->
               LambdaDBConnectionError(
                   <<"Server error:">> \o message, <<error>>)
          [] OTHER ->
               IF error.cls = "Object"
               THEN PlainError(<<"[object Object]">>)
               ELSE error

\* handleLambdaDBError returning every error as it is.
handleLambdaDBErrorPassThrough(error) == error

\* handleLambdaDBError(error): the typed error for a raw error.
handleLambdaDBError(error) ==
    LET status == IF error.status # 0 THEN error.status ELSE error.statusCode
        message == IF error.message # <<>> THEN error.message
                   ELSE IF error.bodyMessage # <<>> THEN error.bodyMessage
                   ELSE <<"Unknown error">>
        retryAfter == IF error.hdr # <<>> /\ error.hdr[1] # <<>>
                      THEN <<parseInt(error.hdr[1])>>
                      ELSE <<>>
    IN  CASE status \in {401, 403} ->
               LambdaDBAuthenticationError(
                   <<"Authentication failed:">> \o message, <<error>>)
          [] status = 404 ->
               LambdaDBResourceNotFoundError(
                   <<"Resource not found:">> \o message, <<error>>)
          [] status = 400 ->
               LambdaDBValidationError(
                   <<"Validation error:">> \o message, <<error>>)
          [] status = 429 ->
               LambdaDBRateLimitError(
                   <<"Rate limit exceeded:">> \o message, retryAfter, <<error>>)
          [] status \in {500, 502, 503, 504} ->
               LambdaDBConnectionError(
                   <<"Server error:">> \o message, <<error>>)
          [] OTHER ->
               IF error.name \in {"LambdaDBError", "UnauthenticatedError"}
               THEN LambdaDBAuthenticationError(
                        <<"LambdaDB Error:">> \o error.message, <<error>>)
               ELSE IF error.name = "ResourceNotFoundError"
               THEN LambdaDBResourceNotFoundError(
                        <<"Resource not found:">> \o error.message, <<error>>)
               ELSE IF error.code \in {"ECONNREFUSED", "ENOTFOUND"}
               THEN LambdaDBConnectionError(
                        <<"Connection failed:">> \o error.message, <<error>>)
               ELSE IF error.cls = "Object"
               THEN PlainError(<<"[object Object]">>)
               ELSE error

----------------------------------------------------------------------------
(* The retry executor. *)

DEFAULT_RETRY_OPTIONS ==
    [maxAttempts |-> 3,
     initialDelay |-> 1000,
     maxDelay |-> 10000,
     backoffMultiplier |-> 2,
     retryableErrors |-> {"LambdaDBConnectionError", "LambdaDBRateLimitError",
                          "ECONNREFUSED", "ENOTFOUND", "TIMEOUT"}]

\* A configuration that sets no option, an object without fields.
NoOptions == [name \in {} |-> TRUE]

\* this.config: the configuration given to the constructor over the defaults.
\* A configuration is a function from the names of the options it sets to
\* their values.
StoreConfig(given) ==
    given @@ [textField |-> "content", vectorField |-> "vector",
              validateCollection |-> FALSE, defaultConsistentRead |-> FALSE]

\* { ...DEFAULT_RETRY_OPTIONS, ...options }
MergeOptions(options) == options @@ DEFAULT_RETRY_OPTIONS

RECURSIVE Pow(_, _)
\* Math.pow(b, e) for a natural exponent.
Pow(b, e) == IF e = 0 THEN 1 ELSE b * Pow(b, e - 1)

Min(a, b) == IF a <= b THEN a ELSE b

\* The retryable test of withRetry's catch block.
IsRetryable(config, lastError) ==
    \E errorType \in config.retryableErrors :
        \/ lastError.name = errorType
        \/ Includes(lastError.message, errorType)
        \/ lastError.code = errorType

\* lastError instanceof LambdaDBRateLimitError && lastError.retryAfter
\* (0 and NaN are falsy).
HasRetryAfter(lastError) ==
    /\ lastError.cls = "LambdaDBRateLimitError"
    /\ lastError.retryAfter # <<>>
    /\ lastError.retryAfter[1] \notin {0, NaN}

\* RetryDelay with the exponent off by one: Math.pow(multiplier, attempt).
RetryDelayOffByOne(config, attempt, lastError) ==
    LET backoff == config.initialDelay
                       * Pow(config.backoffMultiplier, attempt)
        delay == IF HasRetryAfter(lastError)
                 THEN lastError.retryAfter[1] * 1000
                 ELSE backoff
    IN  Min(delay, config.maxDelay)

\* RetryDelay with maxDelay applied before the rate-limit override.
RetryDelayHintUncapped(config, attempt, lastError) ==
    LET backoff == Min(config.initialDelay
                           * Pow(config.backoffMultiplier, attempt - 1),
                       config.maxDelay)
    IN  IF HasRetryAfter(lastError)
        THEN lastError.retryAfter[1] * 1000
        ELSE backoff

\* The delay withRetry waits after failed attempt `attempt`.
RetryDelay(config, attempt, lastError) ==
    LET backoff == config.initialDelay
                       * Pow(config.backoffMultiplier, attempt - 1)
        delay == IF HasRetryAfter(lastError)
                 THEN lastError.retryAfter[1] * 1000
                 ELSE backoff
    IN  Min(delay, config.maxDelay)

----------------------------------------------------------------------------
(* The caller's control state.  The operators below work on a record c of  *)
(* the caller's variables and give the record after the code ran up to its *)
(* next suspension point.                                                  *)

Ctl == [pc |-> pc, frames |-> frames, result |-> result, retry |-> retry,
        wait |-> wait, ens |-> ens, av |-> av]

SetLocals(c) ==
    /\ pc' = c.pc
    /\ frames' = c.frames
    /\ result' = c.result
    /\ retry' = c.retry
    /\ wait' = c.wait
    /\ ens' = c.ens
    /\ av' = c.av

\* The running caller goes on to c; the suspended one stays where it is.
SetCtl(c) ==
    /\ SetLocals(c)
    /\ other' = other

\* The local state of a withRetry call before its first attempt.  calls and
\* failures count the invocations of fn and those that failed; succeeded and
\* value record that fn resolved, and with what; delays records each delay
\* waited (ms) with the retryAfter hint of the failure before it (<<>> when
\* that failure was no rate-limit error or carried none).
NewRetry(fn, config) ==
    [fn |-> fn, config |-> config, attempt |-> 1, lastError |-> <<>>,
     delay |-> 0, calls |-> 0, failures |-> 0, succeeded |-> FALSE,
     delays |-> <<>>, value |-> "", outcome |-> "running"]

NoRetry == [NewRetry("", DEFAULT_RETRY_OPTIONS) EXCEPT !.outcome = "none"]

\* What is left of a withRetry call once its caller goes on: which operation
\* it ran and how it ended.
Finished(r) == [NoRetry EXCEPT !.fn = r.fn, !.outcome = r.outcome]

\* waitForCollectionActive(maxWaitTimeMs = 30000)
DefaultMaxWaitTimeMs == 30000

\* const pollInterval = 1000
PollInterval == 1000

\* The local state of a waitForCollectionActive call right after startTime is
\* taken: elapsed is Date.now() - startTime; fetches, sleeps, fetchAt (elapsed
\* when the last status fetch started), clean (every status fetch so far
\* returned a non-terminal status), m (their number while clean), terminal
\* (the first FAILED/ERROR status received) and sawActive record what happened;
\* caught is <<the error bound by the catch block>> while that block runs.
NewWait(maxWaitTimeMs) ==
    [maxWaitTimeMs |-> maxWaitTimeMs, elapsed |-> 0, fetches |-> 0,
     sleeps |-> 0, fetchAt |-> 0, m |-> 0, clean |-> TRUE, terminal |-> "",
     sawActive |-> FALSE, outcome |-> "running", error |-> <<>>,
     caught |-> <<>>]

NoWait == [NewWait(DefaultMaxWaitTimeMs) EXCEPT !.outcome = "none"]

\* What an ensureCollectionExists call did: stage is the block it is in,
\* listed the outcome of collections.list, found the status of the collection
\* it found, creates the number of createCollection calls it made, awaited
\* that one of them returned, swallowed that it ignored the failure of the
\* second.  For a call made directly, calls is its number in the sequence of
\* calls and before the number of createCollection calls the earlier calls
\* of the sequence made.
NoEns == [stage |-> "none", listed |-> "", found |-> "", creates |-> 0,
          awaited |-> FALSE, swallowed |-> FALSE, calls |-> 0, before |-> 0]

\* vectors and documents are the arguments of addVectors, batches and batch
\* its chunks and the number of chunks done; texts is the argument of
\* addDocuments and embeds counts the calls of embedDocuments.
\* search is <<[query, k, filter]>>, the arguments of the running or last
\* similaritySearchVectorWithScore call, and request its requestBody; mmr is
\* <<[k, fetchK, lambda4, filter]>>, the options of maxMarginalRelevanceSearch
\* after destructuring, and selected the candidates it returned, each by its
\* position in candidateResults; del is <<options>> of deleteDocuments and ids
\* the ids of the docs.delete call in flight.
NoAv == [vectors |-> <<>>, documents |-> <<>>, batch |-> 0, batches |-> <<>>,
         texts |-> <<>>, embeds |-> 0, search |-> <<>>, request |-> <<>>,
         mmr |-> <<>>, selected |-> <<>>, del |-> <<>>, ids |-> <<>>]

\* arg is <<>> or <<the argument of a one-argument operation>>.
NoResult == [op |-> "", arg |-> <<>>, status |-> "none", value |-> "",
             error |-> <<>>]

Pop(fr) == SubSeq(fr, 1, Len(fr) - 1)

Top(fr) == IF fr = <<>> THEN "" ELSE fr[Len(fr)]

\* The public operation resolves / rejects: control is back at the caller.
Resolved(c, value) ==
    [c EXCEPT !.pc = "idle", !.frames = <<>>, !.result.status = "resolved",
              !.result.value = value]

Rejected(c, error) ==
    [c EXCEPT !.pc = "idle", !.frames = <<>>, !.result.status = "rejected",
              !.result.error = <<error>>]

\* withRetry(fn, config) is entered from the function on top of the stack:
\* attempt 1 starts (maxAttempts >= 1 in every configuration of the model).
StartRetry(c, fn, config) ==
    [c EXCEPT !.pc = "retry_call", !.frames = Append(@, "withRetry"),
              !.retry = NewRetry(fn, config)]

\* createCollection() is entered: its withRetry around collections.create.
StartCreate(c, config) ==
    StartRetry([c EXCEPT !.frames = Append(@, "createCollection")],
               "create", config)

\* new Error(`Collection did not become ACTIVE within ${maxWaitTimeMs}ms`)
TimeoutError == PlainError(<<"Collection did not become ACTIVE within",
                             "maxWaitTimeMs", "ms">>)

\* new Error(`Collection creation failed with status: ${info.status}`)
StatusError(status) ==
    PlainError(<<"Collection creation failed with status:", status>>)

----------------------------------------------------------------------------
(* Schema translation, query requests and result selection. *)

\* A wire document and the metadata of a Document are functions from field
\* names to values; a Document is [pageContent, metadata].

\* A field the || chain of lambdaDBToDocument takes: present and not "".
Truthy(obj, key) == key \in DOMAIN obj /\ obj[key] # ""

\* docData with the metadata spread first: the generated id, the text and
\* the vector replace metadata entries of the same name.
docDataMetadataFirst(doc, vector, id, textField, vectorField) ==
    (vectorField :> vector) @@ (textField :> doc.pageContent) @@ ("id" :> id)
        @@ doc.metadata

\* docData of addVectors: { id, [textField]: doc.pageContent,
\* [vectorField]: vector, ...doc.metadata }; of two equal keys the later one
\* gives the value.
docData(doc, vector, id, textField, vectorField) ==
    doc.metadata @@ (vectorField :> vector) @@ (textField :> doc.pageContent)
        @@ ("id" :> id)

\* lambdaDBToDocument reading the text from the field "content" whatever
\* textField is.
lambdaDBToDocumentDefaultField(lambdaDoc, textField) ==
    [pageContent |-> IF Truthy(lambdaDoc, "content")
                     THEN lambdaDoc["content"] ELSE "",
     metadata |-> [key \in DOMAIN lambdaDoc
                               \ {textField, "embedding", "vector", "id"} |->
                       lambdaDoc[key]]]

\* lambdaDBToDocument(lambdaDoc, textField)
lambdaDBToDocument(lambdaDoc, textField) ==
    LET pageContent ==
            IF Truthy(lambdaDoc, textField) THEN lambdaDoc[textField]
            ELSE IF Truthy(lambdaDoc, "content") THEN lambdaDoc["content"]
            ELSE IF Truthy(lambdaDoc, "pageContent")
            THEN lambdaDoc["pageContent"]
            ELSE ""
        kept == DOMAIN lambdaDoc \ {textField, "embedding", "vector", "id"}
    IN  [pageContent |-> pageContent,
         metadata |-> [key \in kept |-> lambdaDoc[key]]]

\* result.score || 0; score is <<>> or <<the score>>.
ScoreOrZero(res) == IF res.score = <<>> THEN 0 ELSE res.score[1]

\* formattedResults keeping only the results that carry a score.
formattedResultsScoredOnly(docs, textField) ==
    LET scored == SelectSeq(docs, LAMBDA r : r.score # <<>>)
    IN  [i \in 1..Len(scored) |->
             <<lambdaDBToDocument(scored[i].doc, textField),
               scored[i].score[1]>>]

\* formattedResults of similaritySearchVectorWithScore: response.docs mapped
\* to [Document, score] pairs.
formattedResults(docs, textField) ==
    [i \in 1..Len(docs) |->
         <<lambdaDBToDocument(docs[i].doc, textField), ScoreOrZero(docs[i])>>]

\* A filter argument is <<>> or <<[kind, value, accepts]>>: kind is "object",
\* "function" or "string", value the mapping or string and accepts the ids of
\* the documents a predicate function accepts.
\* filter && typeof filter === 'object' && typeof filter !== 'function'
IsObjectFilter(filter) == filter # <<>> /\ filter[1].kind = "object"

\* requestBody without the filter, whatever filter was given.
requestBodyNoFilter(query, k, filter, vectorField, consistentRead) ==
    [size |-> k,
     query |-> [knn |-> [field |-> vectorField, queryVector |-> query,
                         k |-> k]],
     consistentRead |-> consistentRead]

\* requestBody of similaritySearchVectorWithScore.
requestBody(query, k, filter, vectorField, consistentRead) ==
    [size |-> k,
     query |-> [knn |-> IF IsObjectFilter(filter)
                        THEN [field |-> vectorField, queryVector |-> query,
                              k |-> k, filter |-> filter[1].value]
                        ELSE [field |-> vectorField, queryVector |-> query,
                              k |-> k]],
     consistentRead |-> consistentRead]

\* An optional argument with a default: opt is <<>> or <<value>>.
Default(opt, d) == IF opt = <<>> THEN d ELSE opt[1]

\* MMRScore without the diversity bonus.
MMRScoreRelevanceOnly(i, n, lambda4) == lambda4 * (n - (i - 1))

\* The score of the candidate at position i (from 1) of n, times 4n, for
\* lambda = lambda4 / 4: relevanceScore + diversityBonus of
\* maxMarginalRelevanceSearch in exact arithmetic.
MMRScore(i, n, lambda4) == lambda4 * (n - (i - 1)) + (4 - lambda4) * (i - 1)

\* The candidate the inner for loop ends with among those in rest: the first
\* of the highest score.
MMRBest(rest, n, lambda4) ==
    CHOOSE i \in rest :
        \A j \in rest :
            \/ MMRScore(i, n, lambda4) > MMRScore(j, n, lambda4)
            \/ MMRScore(i, n, lambda4) = MMRScore(j, n, lambda4) /\ i <= j

RECURSIVE MMRLoopNoSkip(_, _, _, _)
\* MMRLoop without the test selected.includes(candidate).
MMRLoopNoSkip(selected, n, k, lambda4) ==
    IF Len(selected) < k /\ Len(selected) < n
    THEN MMRLoopNoSkip(Append(selected, MMRBest(1..n, n, lambda4)), n, k,
                       lambda4)
    ELSE selected

RECURSIVE MMRLoop(_, _, _, _)
\* The while loop of maxMarginalRelevanceSearch; selected holds positions.
MMRLoop(selected, n, k, lambda4) ==
    IF Len(selected) < k /\ Len(selected) < n
    THEN LET rest == {i \in 1..n : \A j \in 1..Len(selected) :
                                       selected[j] # i}
         IN  IF rest = {}
             THEN selected
             ELSE MMRLoop(Append(selected, MMRBest(rest, n, lambda4)), n, k,
                          lambda4)
    ELSE selected

\* The positions of the candidates maxMarginalRelevanceSearch returns for n
\* candidates (n > 0): selected.slice(0, k) after the loop that started from
\* the first candidate.
MMRSelect(n, k, lambda4) ==
    LET selected == MMRLoop(<<1>>, n, k, lambda4)
    IN  SubSeq(selected, 1, Min(k, Len(selected)))

\* getAllDocuments returning a stored document.
getAllDocumentsStored ==
    <<[pageContent |-> "alpha", metadata |-> [id |-> "a"]]>>

\* getAllDocuments(): return []
getAllDocuments == <<>>

\* doc.metadata.id of each document, those that are falsy left out.
IdsToDelete(docs) ==
    LET ids == [i \in 1..Len(docs) |->
                    IF "id" \in DOMAIN docs[i].metadata
                    THEN docs[i].metadata["id"] ELSE ""]
    IN  SelectSeq(ids, LAMBDA id : id # "")

\* allDocs.filter(filterFn)
FilterDocs(docs, filter) ==
    SelectSeq(docs, LAMBDA doc : /\ "id" \in DOMAIN doc.metadata
                                 /\ doc.metadata["id"] \in filter.accepts)

----------------------------------------------------------------------------
(* Returning and throwing through the call stack. *)

RECURSIVE Return(_, _), Throw(_, _)

\* WaitLoop with <= in the while condition.
WaitLoopInclusive(c) ==
    IF c.wait.elapsed <= c.wait.maxWaitTimeMs
    THEN [c EXCEPT !.pc = "wait_fetch", !.wait.fetches = @ + 1,
                   !.wait.fetchAt = c.wait.elapsed]
    ELSE Throw([c EXCEPT !.wait.outcome = "threw",
                         !.wait.error = <<TimeoutError>>], TimeoutError)

\* The while condition of waitForCollectionActive, evaluated at entry and
\* after each sleep: the next status fetch starts, or the loop ends and the
\* timeout error is thrown.
WaitLoop(c) ==
    IF c.wait.elapsed < c.wait.maxWaitTimeMs
    THEN [c EXCEPT !.pc = "wait_fetch", !.wait.fetches = @ + 1,
                   !.wait.fetchAt = c.wait.elapsed]
    ELSE Throw([c EXCEPT !.wait.outcome = "threw",
                         !.wait.error = <<TimeoutError>>], TimeoutError)

\* StartWait that does not wait: the call returns without polling.
StartWaitNoPolling(c, maxWaitTimeMs) ==
    Return([c EXCEPT !.frames = Append(@, "waitForCollectionActive"),
                     !.wait = [NewWait(maxWaitTimeMs) EXCEPT
                                   !.outcome = "returned"]], "")

\* waitForCollectionActive(maxWaitTimeMs) is entered.
StartWait(c, maxWaitTimeMs) ==
    WaitLoop([c EXCEPT !.frames = Append(@, "waitForCollectionActive"),
                       !.wait = NewWait(maxWaitTimeMs)])

\* WaitCatch throwing every error it catches.
WaitCatchRethrow(c, error) ==
    Throw([c EXCEPT !.wait.outcome = "threw", !.wait.error = <<error>>,
                    !.wait.caught = <<error>>], error)

\* The catch block of waitForCollectionActive's loop body.
WaitCatch(c, error) ==
    IF c.wait.elapsed < c.wait.maxWaitTimeMs
    THEN [c EXCEPT !.pc = "wait_catch_sleep", !.wait.caught = <<error>>]
    ELSE Throw([c EXCEPT !.wait.outcome = "threw", !.wait.error = <<error>>,
                         !.wait.caught = <<error>>], error)

\* WaitOnInfo polling again at once, without the sleep, on a non-terminal
\* status.
WaitOnInfoNoSleep(c, status) ==
    IF status = "ACTIVE"
    THEN Return([c EXCEPT !.wait.outcome = "returned",
                          !.wait.sawActive = TRUE], "")
    ELSE IF status = "FAILED" \/ status = "ERROR"
    THEN WaitCatch([c EXCEPT !.wait.clean = FALSE, !.wait.m = 0,
                             !.wait.terminal = OrElse(@, status)],
                   StatusError(status))
    ELSE WaitLoop([c EXCEPT !.wait.m = IF c.wait.clean THEN @ + 1 ELSE @])

\* The loop body after getCollectionInfo returned info with info.status.
WaitOnInfo(c, status) ==
    IF status = "ACTIVE"
    THEN Return([c EXCEPT !.wait.outcome = "returned",
                          !.wait.sawActive = TRUE], "")
    ELSE IF status = "FAILED" \/ status = "ERROR"
    THEN WaitCatch([c EXCEPT !.wait.clean = FALSE, !.wait.m = 0,
                             !.wait.terminal = OrElse(@, status)],
                   StatusError(status))
    ELSE [c EXCEPT !.pc = "wait_sleep",
                   !.wait.m = IF c.wait.clean THEN @ + 1 ELSE @]

\* The loop body after getCollectionInfo threw: collections.get failed with
\* `error` and getCollectionInfo's catch classified it.
WaitOnFetchError(c, error) ==
    WaitCatch([c EXCEPT !.wait.clean = FALSE, !.wait.m = 0],
              handleLambdaDBError(error))

\* A poll-interval timer of waitForCollectionActive fired `late` ms late.
WaitAfterSleep(c, late) ==
    WaitLoop([c EXCEPT !.wait.elapsed = @ + PollInterval + late,
                       !.wait.sleeps = @ + 1, !.wait.caught = <<>>])

\* RetryThrow classifying the error it throws.
RetryThrowClassified(c) ==
    Throw([c EXCEPT !.retry.outcome = "threw"],
          handleLambdaDBError(c.retry.lastError[1]))

\* RetryThrow returning to the caller of withRetry instead of throwing.
RetryThrowSwallowed(c) ==
    Return([c EXCEPT !.retry.outcome = "returned"], "")

\* withRetry leaves its loop: throw lastError.
RetryThrow(c) ==
    Throw([c EXCEPT !.retry.outcome = "threw"], c.retry.lastError[1])

\* RetryOnSuccess without the return: the loop goes on to the next attempt.
RetryOnSuccessNoReturn(c, value) ==
    LET c1 == [c EXCEPT !.retry.calls = @ + 1, !.retry.value = value,
                        !.retry.succeeded = TRUE]
    IN  IF c.retry.attempt < c.retry.config.maxAttempts
        THEN [c1 EXCEPT !.pc = "retry_call", !.retry.attempt = @ + 1]
        ELSE Throw([c1 EXCEPT !.retry.outcome = "threw"],
                   PlainError(<<"undefined">>))

\* fn() resolved with value: withRetry returns it.
RetryOnSuccess(c, value) ==
    Return([c EXCEPT !.retry.calls = @ + 1, !.retry.value = value,
                     !.retry.succeeded = TRUE, !.retry.outcome = "returned"],
           value)

\* RetryOnFailure without the retryable test: every failure is retried.
RetryOnFailureNoTest(c, error) ==
    LET c1 == [c EXCEPT !.retry.calls = @ + 1, !.retry.failures = @ + 1,
                        !.retry.lastError = <<error>>]
        config == c.retry.config
    IN  IF c.retry.attempt = config.maxAttempts
        THEN RetryThrow(c1)
        ELSE [c1 EXCEPT !.pc = "retry_sleep",
                        !.retry.delay =
                            RetryDelay(config, c.retry.attempt, error)]

\* RetryOnFailure giving up on the failure: withRetry returns as if fn() had
\* resolved.
RetryOnFailureGivingUp(c, error) ==
    Return([c EXCEPT !.retry.calls = @ + 1, !.retry.failures = @ + 1,
                     !.retry.lastError = <<error>>,
                     !.retry.outcome = "returned"], "")

\* fn() rejected with error: the catch block of withRetry.
RetryOnFailure(c, error) ==
    LET c1 == [c EXCEPT !.retry.calls = @ + 1, !.retry.failures = @ + 1,
                        !.retry.lastError = <<error>>]
        config == c.retry.config
    IN  IF c.retry.attempt = config.maxAttempts
        THEN RetryThrow(c1)
        ELSE IF ~IsRetryable(config, error)
        THEN RetryThrow(c1)
        ELSE [c1 EXCEPT !.pc = "retry_sleep",
                        !.retry.delay =
                            RetryDelay(config, c.retry.attempt, error)]

\* The backoff timer fired: attempt++ and the loop condition.
RetryAfterSleep(c) ==
    LET hint == IF c.retry.lastError[1].cls = "LambdaDBRateLimitError"
                THEN c.retry.lastError[1].retryAfter
                ELSE <<>>
        c1 == [c EXCEPT !.retry.delays =
                            Append(@, [ms |-> c.retry.delay, hint |-> hint]),
                        !.retry.attempt = @ + 1]
    IN  IF c1.retry.attempt <= c1.retry.config.maxAttempts
        THEN [c1 EXCEPT !.pc = "retry_call"]
        ELSE RetryThrow(c1)

\* The for loop over the batches in addVectors: the next batch's withRetry
\* starts, or addVectors returns.
UpsertLoop(c) ==
    IF c.av.batch < Len(c.av.batches)
    THEN StartRetry(c, "upsert", retryOptions)
    ELSE Return(c, "")

\* EnsureCatch letting the failure of its createCollection call escape.
EnsureCatchRethrow(c, error) ==
    IF c.ens.stage = "try"
    THEN StartCreate([c EXCEPT !.ens.stage = "catch", !.ens.creates = @ + 1,
                               !.wait = NoWait], retryOptions)
    ELSE Throw([c EXCEPT !.frames = Pop(@)], error)

\* The catch block of ensureCollectionExists: create from the catch branch;
\* a failure of that create is swallowed.
EnsureCatch(c, error) ==
    IF c.ens.stage = "try"
    THEN StartCreate([c EXCEPT !.ens.stage = "catch", !.ens.creates = @ + 1,
                               !.wait = NoWait], retryOptions)
    ELSE Return([c EXCEPT !.ens.swallowed = TRUE, !.wait = NoWait,
                          !.retry = NoRetry], "")

\* The function on top of the stack returns to its caller.
Return(c, value) ==
    LET top == Top(c.frames)
        c1 == [c EXCEPT !.frames = Pop(@)]
        caller == Top(c1.frames)
    IN  CASE caller = "" -> Resolved(c1, value)
          [] top = "withRetry" /\ caller = "createCollection" ->
               StartWait([c1 EXCEPT !.retry = Finished(@)],
                         DefaultMaxWaitTimeMs)
          [] top = "waitForCollectionActive" /\ caller = "createCollection" ->
               Return(c1, "")
          [] top = "createCollection" /\ caller = "ensureCollectionExists" ->
               Return([c1 EXCEPT !.ens.awaited = TRUE, !.wait = NoWait,
                                 !.retry = NoRetry], "")
          [] top = "ensureCollectionExists" /\ caller = "addVectors" ->
               UpsertLoop(c1)
          [] top = "withRetry" /\ caller = "addVectors" ->
               UpsertLoop([c1 EXCEPT !.av.batch = @ + 1])
          [] top = "addVectors" /\ caller = "addDocuments" ->
               Return(c1, "")
          [] top = "withRetry" /\ caller = "similaritySearchVectorWithScore" ->
               Return(c1, formattedResults(value, storeConfig.textField))
          [] top = "similaritySearchVectorWithScore"
                 /\ caller = "similaritySearch" ->
               Return(c1, [i \in 1..Len(value) |-> value[i][1]])
          [] top = "similaritySearchVectorWithScore"
                 /\ caller = "maxMarginalRelevanceSearch" ->
               IF Len(value) = 0
               THEN Return(c1, <<>>)
               ELSE LET selected == MMRSelect(Len(value), c.av.mmr[1].k,
                                              c.av.mmr[1].lambda4)
                    IN  Return([c1 EXCEPT !.av.selected = selected],
                               [j \in 1..Len(selected) |->
                                    value[selected[j]][1]])
          [] top = "deleteDocuments" /\ caller = "deleteDocuments" ->
               Return(c1, "")

\* An exception reaches the function on top of the stack.
Throw(c, error) ==
    LET top == Top(c.frames)
        c1 == [c EXCEPT !.frames = Pop(@)]
    IN  CASE top = "" -> Rejected(c, error)
          [] top \in {"withRetry", "waitForCollectionActive",
                      "similaritySearch"} ->
               Throw(c1, error)
          [] top \in {"createCollection", "getCollectionInfo", "addVectors",
                      "addDocuments", "similaritySearchVectorWithScore",
                      "maxMarginalRelevanceSearch", "deleteCollection",
                      "deleteDocuments"} ->
               Throw(c1, handleLambdaDBError(error))
          [] top = "ensureCollectionExists" -> EnsureCatch(c, error)

----------------------------------------------------------------------------
(* The remote service and the inputs. *)

\* collectionStatus of an existing collection; "" is a response without one.
Statuses == {"CREATING", "ACTIVE", "FAILED", "ERROR", "UPDATING", ""}

RemoteStates == {"ABSENT"} \cup Statuses

\* Failures any remote call can end with.
RemoteFailures ==
    {HttpError(503, <<"Service Unavailable">>, <<>>),
     HttpError(429, <<"Too Many Requests">>, <<<<"2">>>>),
     NetError("ECONNREFUSED", <<"connect", "ECONNREFUSED">>)}

NotFound == HttpError(404, <<"Collection not found">>, <<>>)

Conflict == HttpError(409, <<"Collection already exists">>, <<>>)

\* How long a collections.get call takes: at once, or the client's timeoutMs.
FetchDurations == {0, 30000}

\* How late a poll-interval timer fires.
TimerLateness == {0}

\* The options a caller passes to withRetry.
OptionSets ==
    {[maxAttempts |-> n] : n \in 1..MaxAttempts}
    \cup {[maxAttempts |-> n, initialDelay |-> 100, maxDelay |-> 250,
           backoffMultiplier |-> 3] : n \in 1..MaxAttempts}
    \cup {[maxAttempts |-> n, initialDelay |-> 0,
           retryableErrors |-> {"LambdaDBValidationError", "TIMEOUT"}] :
              n \in 1..MaxAttempts}

\* The retryOptions a store is constructed with.
StoreOptionSets ==
    {[maxAttempts |-> 3],
     [maxAttempts |-> 1, initialDelay |-> 0],
     [maxAttempts |-> 2, initialDelay |-> 100]}

\* The values and errors the operation given to withRetry ends with.
FnValues == {"v1", "v2"}

FnErrors ==
    {LambdaDBConnectionError(<<"Server error:", "down">>, <<>>),
     LambdaDBValidationError(<<"Validation error:", "bad">>, <<>>),
     LambdaDBRateLimitError(<<"Rate limit exceeded:">>, <<>>, <<>>),
     LambdaDBRateLimitError(<<"Rate limit exceeded:">>, <<0>>, <<>>),
     LambdaDBRateLimitError(<<"Rate limit exceeded:">>, <<2>>, <<>>),
     LambdaDBRateLimitError(<<"Rate limit exceeded:">>, <<30>>, <<>>),
     PlainError(<<"request", "TIMEOUT", "exceeded">>),
     PlainError(<<"boom">>),
     NetError("ENOTFOUND", <<"getaddrinfo">>),
     HttpError(503, <<"Service Unavailable">>, <<>>)}

\* The timeouts waitForCollectionActive is called with.
WaitTimeouts == {2500, DefaultMaxWaitTimeMs}

\* The caller's variables when a public operation starts.
Fresh(op) ==
    [pc |-> "idle", frames |-> <<>>,
     result |-> [NoResult EXCEPT !.op = op, !.status = "pending"],
     retry |-> NoRetry, wait |-> NoWait, ens |-> NoEns, av |-> NoAv]

\* A caller that has called nothing.
NoCaller ==
    [pc |-> "idle", frames |-> <<>>, result |-> NoResult, retry |-> NoRetry,
     wait |-> NoWait, ens |-> NoEns, av |-> NoAv]

Begin(c) ==
    /\ pc = "idle"
    /\ upserts' = <<>>
    /\ requests' = <<>>
    /\ SetCtl(c)

----------------------------------------------------------------------------
(* Actions. *)

\* withRetry(fn, options) is called.
CallWithRetry ==
    \E options \in OptionSets :
        /\ Begin(StartRetry(Fresh("withRetry"), "fn", MergeOptions(options)))
        /\ UNCHANGED <<remote, retryOptions, storeConfig>>

\* The operation of a direct withRetry call ends.
FnDone ==
    /\ pc = "retry_call"
    /\ retry.fn = "fn"
    /\ \/ \E value \in FnValues : SetCtl(RetryOnSuccess(Ctl, value))
       \/ \E error \in FnErrors : SetCtl(RetryOnFailure(Ctl, error))
    /\ UNCHANGED <<remote, upserts, retryOptions, storeConfig, requests>>

\* The backoff timer of withRetry fires.
RetryTimer ==
    /\ pc = "retry_sleep"
    /\ SetCtl(RetryAfterSleep(Ctl))
    /\ UNCHANGED <<remote, upserts, retryOptions, storeConfig, requests>>

\* waitForCollectionActive(maxWaitTimeMs) is called.
CallWait ==
    \E maxWaitTimeMs \in WaitTimeouts :
        /\ Begin(StartWait(Fresh("waitForCollectionActive"), maxWaitTimeMs))
        /\ UNCHANGED <<remote, retryOptions, storeConfig>>

\* The collections.get call of a status fetch ends, after `d` ms.
WaitFetchDone ==
    /\ pc = "wait_fetch"
    /\ \E d \in FetchDurations :
         LET c == [Ctl EXCEPT !.wait.elapsed = @ + d]
         IN  \/ /\ remote # "ABSENT"
                /\ SetCtl(WaitOnInfo(c, OrElse(remote, "unknown")))
             \/ /\ remote = "ABSENT"
                /\ SetCtl(WaitOnFetchError(c, NotFound))
             \/ \E error \in RemoteFailures :
                    SetCtl(WaitOnFetchError(c, error))
    /\ UNCHANGED <<remote, upserts, retryOptions, storeConfig, requests>>

\* A poll-interval timer of waitForCollectionActive fires.
WaitTimer ==
    /\ pc \in {"wait_sleep", "wait_catch_sleep"}
    /\ \E late \in TimerLateness : SetCtl(WaitAfterSleep(Ctl, late))
    /\ UNCHANGED <<remote, upserts, retryOptions, storeConfig, requests>>

\* The service, or another client, changes the collection's state.
RemoteChange ==
    /\ \E s \in RemoteStates \ {remote} : remote' = s
    /\ UNCHANGED <<pc, frames, result, retry, wait, ens, av, upserts,
                   retryOptions, storeConfig, requests, other>>

\* createCollection() is called.
CallCreateCollection ==
    /\ Begin(StartCreate(Fresh("createCollection"), retryOptions))
    /\ UNCHANGED <<remote, retryOptions, storeConfig>>

\* The collections.create call of createCollection ends.
CreateDone ==
    /\ pc = "retry_call"
    /\ retry.fn = "create"
    /\ \/ /\ remote = "ABSENT"
          /\ remote' = "CREATING"
          /\ SetCtl(RetryOnSuccess(Ctl, ""))
       \/ /\ remote # "ABSENT"
          /\ remote' = remote
          /\ SetCtl(RetryOnFailure(Ctl, Conflict))
       \/ /\ \E error \in RemoteFailures : SetCtl(RetryOnFailure(Ctl, error))
          /\ remote' = remote
    /\ UNCHANGED <<upserts, retryOptions, storeConfig, requests>>

\* getCollectionInfo() is called.
CallGetCollectionInfo ==
    /\ Begin([Fresh("getCollectionInfo") EXCEPT
                  !.pc = "info_fetch", !.frames = <<"getCollectionInfo">>])
    /\ UNCHANGED <<remote, retryOptions, storeConfig>>

\* The collections.get call of getCollectionInfo ends.
GetCollectionInfoDone ==
    /\ pc = "info_fetch"
    /\ \/ /\ remote # "ABSENT"
          /\ SetCtl(Return(Ctl, OrElse(remote, "unknown")))
       \/ /\ remote = "ABSENT"
          /\ SetCtl(Throw(Ctl, NotFound))
       \/ \E error \in RemoteFailures : SetCtl(Throw(Ctl, error))
    /\ UNCHANGED <<remote, upserts, retryOptions, storeConfig, requests>>

----------------------------------------------------------------------------
(* addVectors and ensureCollectionExists. *)

\* config.vectorDimensions of the store.
VectorDimensions == 3

\* const batchSize = 100
BatchSize == 100

\* A vector is modelled by its length.
VectorLengths == {VectorDimensions, VectorDimensions + 1}

VectorLists ==
    UNION {[1..n -> VectorLengths] : n \in 0..MaxVectors}

\* validateVectorDimensions(vector, expectedDimensions): <<>> or <<error>>.
validateVectorDimensions(vector, expectedDimensions) ==
    IF vector # expectedDimensions
    THEN <<PlainError(<<"Vector dimension mismatch: expected",
                        ToString(expectedDimensions), "got",
                        ToString(vector)>>)>>
    ELSE <<>>

RECURSIVE BatchFrom(_, _, _)
BatchFrom(array, batchSize, i) ==
    IF i > Len(array) THEN <<>>
    ELSE <<SubSeq(array, i, Min(i + batchSize - 1, Len(array)))>>
             \o BatchFrom(array, batchSize, i + batchSize)

\* batchArray that does not split: the whole array is the one chunk.
batchArrayNoSplit(array, batchSize) ==
    IF array = <<>> THEN <<>> ELSE <<array>>

\* batchArray(array, batchSize)
batchArray(array, batchSize) == BatchFrom(array, batchSize, 1)

\* A document is modelled by its pageContent, and that by its length.
\* n documents, the i-th with a text of i characters.
Docs(n) == [i \in 1..n |-> i]

\* The wire documents addVectors builds: one per vector, in input order, each
\* with a fresh id, the text of the document at the same index and the vector.
LambdaDBDocs(vectors, documents) ==
    [idx \in 1..Len(vectors) |->
         docData([pageContent |-> documents[idx], metadata |-> NoOptions],
                 vectors[idx], idx, storeConfig.textField,
                 storeConfig.vectorField)]

\* StartAddVectors without the comparison of the two lengths.
StartAddVectorsNoLengthCheck(c, vectors, documents) ==
    LET c1 == [c EXCEPT !.frames = Append(@, "addVectors"),
                        !.av.vectors = vectors,
                        !.av.documents = documents,
                        !.av.batches = <<>>]
        dim == IF Len(vectors) > 0
               THEN validateVectorDimensions(vectors[1], VectorDimensions)
               ELSE <<>>
    IN  IF dim # <<>>
        THEN Throw(c1, dim[1])
        ELSE [c1 EXCEPT !.pc = "ensure_list",
                        !.frames = Append(@, "ensureCollectionExists"),
                        !.ens.stage = "try"]

\* addVectors(vectors, documents) up to its first await.
StartAddVectors(c, vectors, documents) ==
    LET c1 == [c EXCEPT !.frames = Append(@, "addVectors"),
                        !.av.vectors = vectors,
                        !.av.documents = documents,
                        !.av.batches =
                            IF Len(vectors) = Len(documents)
                            THEN batchArray(LambdaDBDocs(vectors, documents),
                                            BatchSize)
                            ELSE <<>>]
        dim == IF Len(vectors) > 0
               THEN validateVectorDimensions(vectors[1], VectorDimensions)
               ELSE <<>>
    IN  IF Len(vectors) # Len(documents)
        THEN Throw(c1, PlainError(<<"Vectors and documents length mismatch">>))
        ELSE IF dim # <<>>
        THEN Throw(c1, dim[1])
        ELSE [c1 EXCEPT !.pc = "ensure_list",
                        !.frames = Append(@, "ensureCollectionExists"),
                        !.ens.stage = "try"]

\* EnsureOnList creating the collection whether or not it is listed.
EnsureOnListAlwaysCreate(c, collectionExists, status) ==
    StartCreate([c EXCEPT !.ens.listed =
                              IF collectionExists THEN "found" ELSE "absent",
                          !.ens.found = IF collectionExists THEN status ELSE "",
                          !.ens.creates = @ + 1], retryOptions)

\* ensureCollectionExists after collections.list resolved.
EnsureOnList(c, collectionExists, status) ==
    IF collectionExists
    THEN Return([c EXCEPT !.ens.listed = "found", !.ens.found = status], "")
    ELSE StartCreate([c EXCEPT !.ens.listed = "absent",
                               !.ens.creates = @ + 1], retryOptions)

\* addVectors(vectors, documents) is called.
CallAddVectors ==
    \E vectors \in VectorLists, n \in 0..MaxVectors :
        /\ Begin(StartAddVectors(Fresh("addVectors"), vectors, Docs(n)))
        /\ UNCHANGED <<remote, retryOptions, storeConfig>>

\* The collections.list call of ensureCollectionExists ends.
EnsureListDone ==
    /\ pc = "ensure_list"
    /\ \/ SetCtl(EnsureOnList(Ctl, remote # "ABSENT", remote))
       \/ \E error \in RemoteFailures :
              SetCtl(Throw([Ctl EXCEPT !.ens.listed = "failed"], error))
    /\ UNCHANGED <<remote, upserts, retryOptions, storeConfig, requests>>

\* The upsert request in flight: the chunk it carries (and the chunk's
\* number), the attempt of the chunk's withRetry it belongs to, the delays
\* that withRetry has waited, the state the collection is in when the service
\* receives it, what ensureCollectionExists observed, and how it ends.
UpsertRequest(ok) ==
    [docs |-> av.batches[av.batch + 1], batch |-> av.batch + 1,
     attempt |-> retry.attempt, delays |-> Len(retry.delays),
     status |-> remote, ens |-> ens, ok |-> ok]

\* The collections.docs.upsert call of a batch ends; the request is recorded.
UpsertDone ==
    /\ pc = "retry_call"
    /\ retry.fn = "upsert"
    /\ \/ /\ remote # "ABSENT"
          /\ upserts' = Append(upserts, UpsertRequest(TRUE))
          /\ SetCtl(RetryOnSuccess(Ctl, ""))
       \/ /\ remote = "ABSENT"
          /\ upserts' = Append(upserts, UpsertRequest(FALSE))
          /\ SetCtl(RetryOnFailure(Ctl, NotFound))
       \/ /\ upserts' = Append(upserts, UpsertRequest(FALSE))
          /\ \E error \in RemoteFailures : SetCtl(RetryOnFailure(Ctl, error))
    /\ UNCHANGED <<remote, retryOptions, storeConfig, requests>>

----------------------------------------------------------------------------
(* The error classifier called on its own. *)

\* The retry-after headers of a raw error: none, an empty one, seconds, a
\* decimal fraction and an HTTP date.
RetryAfterHeaders ==
    {<<>>, <<<<>>>>, <<<<"3", "0">>>>, <<<<"1", ".", "5">>>>,
     <<<<"W", "e", "d", ",", " ", "2", "1">>>>}

\* The raw errors handed to handleLambdaDBError: Error objects and other
\* thrown objects with every combination of status, statusCode, name, system
\* code, retry-after header, message and body.message.
RawErrors ==
    {[Err(cls, name, message, code, status, hdr, <<>>, <<>>) EXCEPT
          !.statusCode = statusCode, !.bodyMessage = bodyMessage] :
        cls \in {"Error", "Object"},
        name \in {"Error", "LambdaDBError", "UnauthenticatedError",
                  "ResourceNotFoundError"},
        message \in {<<>>, <<"m">>},
        code \in {"", "ECONNREFUSED", "ENOTFOUND"},
        status \in {0, 400, 401, 403, 404, 409, 429, 500, 502, 503, 504},
        hdr \in RetryAfterHeaders,
        statusCode \in {0, 404},
        bodyMessage \in {<<>>, <<"b">>}}

\* handleLambdaDBError(error) is called with the raw error held by arg:
\* error holds the error returned.
Classify ==
    /\ result.op = ""
    /\ result.arg # <<>>
    /\ Begin([Fresh("handleLambdaDBError") EXCEPT
                  !.result.arg = result.arg,
                  !.result.status = "resolved",
                  !.result.error = <<handleLambdaDBError(result.arg[1])>>])
    /\ UNCHANGED <<remote, retryOptions, storeConfig>>

\* handleLambdaDBError is called with the error an earlier call returned, as
\* the catch block of a facade method does with the error thrown by the
\* facade method it called: error holds both errors returned.
ClassifyAgain ==
    /\ result.op = "handleLambdaDBError"
    /\ Len(result.error) = 1
    /\ result' = [result EXCEPT
                      !.error = Append(@, handleLambdaDBError(result.error[1]))]
    /\ UNCHANGED <<pc, frames, retry, wait, ens, av, remote, upserts,
                   retryOptions, storeConfig, requests, other>>

----------------------------------------------------------------------------
(* The schema translation called on its own. *)

\* How many metadata entries a document has at most.
MaxMetadata == 2

\* The metadata keys of the documents: the names the translation treats
\* specially, the configured field names and another.
MetadataKeys ==
    {"id", "content", "pageContent", "vector", "embedding", "text", "emb",
     "title"}

\* The documents a caller stores: with empty and non-empty text.
Documents ==
    {[pageContent |-> text, metadata |-> metadata] :
         text \in {"", "hello"},
         metadata \in UNION {[keys -> {"m"}] :
                                keys \in {K \in SUBSET MetadataKeys :
                                              Cardinality(K) <= MaxMetadata}}}

\* The configurations of the field names.
FieldConfigs ==
    {NoOptions,
     [textField |-> "text", vectorField |-> "emb"],
     [vectorField |-> "embedding"],
     [textField |-> "text", vectorField |-> "text"]}

\* A document is translated as addVectors does, with its vector and id, and
\* the wire document is translated back as a search does; batches holds the
\* wire document.
RoundTrip ==
    /\ result.op = ""
    /\ result.arg # <<>>
    /\ LET doc == result.arg[1]
           wire == docData(doc, "v", "id1", storeConfig.textField,
                           storeConfig.vectorField)
       IN  Begin([Fresh("roundTrip") EXCEPT
                      !.av.batches = <<<<wire>>>>,
                      !.result.arg = result.arg,
                      !.result.status = "resolved",
                      !.result.value =
                          lambdaDBToDocument(wire, storeConfig.textField)])
    /\ UNCHANGED <<remote, retryOptions, storeConfig>>

----------------------------------------------------------------------------
(* addDocuments, and addVectors with larger inputs. *)

\* 50 * 1000
MaxTextLength == 50000

\* new Error(`The text at index ${index} is too long. Max length is 50KB.`)
TooLongError(index) ==
    PlainError(<<"The text at index", ToString(index),
                 "is too long. Max length is 50KB.">>)

\* The first index (from 0) of a text longer than the limit, -1 if none.
FirstTooLong(texts, limit) ==
    IF \E i \in DOMAIN texts : limit < texts[i]
    THEN (CHOOSE i \in DOMAIN texts :
              /\ limit < texts[i]
              /\ \A j \in 1..(i - 1) : ~(limit < texts[j])) - 1
    ELSE -1

\* StartAddDocuments going on to the embedding when the list is empty.
StartAddDocumentsNoEmptyCheck(c, documents) ==
    LET c1 == [c EXCEPT !.frames = <<"addDocuments">>,
                        !.av.texts = documents]
        index == FirstTooLong(documents, MaxTextLength)
    IN  IF index >= 0
        THEN Throw(c1, TooLongError(index))
        ELSE [c1 EXCEPT !.pc = "embed"]

\* StartAddDocuments with the limit one character lower.
StartAddDocumentsLowerLimit(c, documents) ==
    LET c1 == [c EXCEPT !.frames = <<"addDocuments">>,
                        !.av.texts = documents]
        index == FirstTooLong(documents, MaxTextLength - 1)
    IN  IF Len(documents) = 0
        THEN Return(c1, "")
        ELSE IF index >= 0
        THEN Throw(c1, TooLongError(index))
        ELSE [c1 EXCEPT !.pc = "embed"]

\* addDocuments(documents) up to its first await.
StartAddDocuments(c, documents) ==
    LET c1 == [c EXCEPT !.frames = <<"addDocuments">>,
                        !.av.texts = documents]
        index == FirstTooLong(documents, MaxTextLength)
    IN  IF Len(documents) = 0
        THEN Return(c1, "")
        ELSE IF index >= 0
        THEN Throw(c1, TooLongError(index))
        ELSE [c1 EXCEPT !.pc = "embed"]

\* The text lengths of the documents a caller passes to addDocuments.
TextLengths == {1, MaxTextLength, MaxTextLength + 1}

TextLists == UNION {[1..n -> TextLengths] : n \in 0..MaxMixed}

\* addDocuments(documents) is called.
CallAddDocuments ==
    \E documents \in TextLists :
        /\ Begin(StartAddDocuments(Fresh("addDocuments"), documents))
        /\ UNCHANGED <<remote, retryOptions, storeConfig>>

\* embeddings.embedDocuments(texts) ends: with one vector per text, all of
\* the embedding model's dimension, or with a failure.
EmbedDone ==
    /\ pc = "embed"
    /\ LET c == [Ctl EXCEPT !.av.embeds = @ + 1]
       IN  \/ \E dim \in VectorLengths :
                  SetCtl(StartAddVectors(
                             c, [i \in 1..Len(av.texts) |-> dim], av.texts))
           \/ SetCtl(Throw(c, PlainError(<<"embedding failed">>)))
    /\ UNCHANGED <<remote, upserts, retryOptions, storeConfig, requests>>

\* The numbers of pairs of a bulk call: around each multiple of the chunk size.
BulkCounts ==
    {k * BatchSize + r : k \in 1..MaxChunks, r \in {-1, 0, 1}}

\* The <<vectors, documents>> a caller passes to addVectors: short lists of
\* vectors of right and wrong lengths with as many or other many documents,
\* and long lists of valid pairs.
AddVectorsInputs ==
    {<<vectors, Docs(n)>> :
         vectors \in UNION {[1..m -> VectorLengths] : m \in 0..MaxMixed},
         n \in 0..MaxMixed}
    \cup {<<[i \in 1..n |-> VectorDimensions], Docs(n)>> : n \in BulkCounts}

\* addVectors(vectors, documents) is called with one of these inputs.
CallAddVectorsMany ==
    \E input \in AddVectorsInputs :
        /\ Begin(StartAddVectors(Fresh("addVectors"), input[1], input[2]))
        /\ UNCHANGED <<remote, retryOptions, storeConfig>>

----------------------------------------------------------------------------
(* similaritySearchVectorWithScore. *)

\* StartSearch without the dimension check.
StartSearchUnchecked(c, query, k, filter) ==
    StartRetry([c EXCEPT !.frames =
                             Append(@, "similaritySearchVectorWithScore"),
                         !.av.search = <<[query |-> query, k |-> k,
                                          filter |-> filter]>>,
                         !.av.request =
                             <<requestBody(query, k, filter,
                                           storeConfig.vectorField,
                                           storeConfig.defaultConsistentRead)>>],
               "query", retryOptions)

\* similaritySearchVectorWithScore(query, k, filter) up to its first await.
StartSearch(c, query, k, filter) ==
    LET c1 == [c EXCEPT !.frames =
                            Append(@, "similaritySearchVectorWithScore"),
                        !.av.search = <<[query |-> query, k |-> k,
                                         filter |-> filter]>>]
        dim == validateVectorDimensions(query, VectorDimensions)
    IN  IF dim # <<>>
        THEN Throw(c1, dim[1])
        ELSE StartRetry(
                 [c1 EXCEPT !.av.request =
                                <<requestBody(
                                      query, k, filter,
                                      storeConfig.vectorField,
                                      storeConfig.defaultConsistentRead)>>],
                 "query", retryOptions)

\* similaritySearch(query, k = 4, filter) up to its first await.
StartSimilaritySearch(c, k, filter) ==
    [c EXCEPT !.pc = "embed_query",
              !.frames = Append(@, "similaritySearch"),
              !.av.search = <<[query |-> 0, k |-> Default(k, 4),
                               filter |-> filter]>>]

\* maxMarginalRelevanceSearch(query, options) up to its first await: the
\* options with their defaults (lambda = 0.5) and searchFilter.
StartMMR(c, options) ==
    [c EXCEPT !.pc = "embed_query",
              !.frames = Append(@, "maxMarginalRelevanceSearch"),
              !.av.mmr =
                  <<[k |-> Default(options.k, 4),
                     fetchK |-> Default(options.fetchK, 20),
                     lambda4 |-> Default(options.lambda4, 2),
                     filter |->
                         IF /\ options.filter # <<>>
                            /\ options.filter[1].kind
                                   \in {"object", "function"}
                         THEN options.filter
                         ELSE <<>>]>>]

\* How many results a response holds at most.
MaxResults == 3

\* The lengths of the query vectors a caller passes.
QueryLengths == {0, VectorDimensions - 1, VectorDimensions,
                 VectorDimensions + 1}

\* The filters a caller passes: a mapping, predicates, a string.
Filters ==
    {<<>>,
     <<[kind |-> "object", value |-> "category = x", accepts |-> {}]>>,
     <<[kind |-> "function", value |-> "", accepts |-> {"a"}]>>}

StringFilter == <<[kind |-> "string", value |-> "category", accepts |-> {}]>>

\* The k a caller of similaritySearchVectorWithScore passes.
SearchSizes == {1, MaxResults + 1}

\* The results the service returns: a wire document with or without a score.
Results ==
    {[doc |-> [id |-> "a", content |-> "alpha", vector |-> "v",
               category |-> "x"],
      score |-> <<9>>],
     [doc |-> [id |-> "b", content |-> "", text |-> "beta", emb |-> "v"],
      score |-> <<>>],
     [doc |-> [id |-> "c", pageContent |-> "gamma", embedding |-> "v",
               category |-> "y"],
      score |-> <<0>>]}

\* The response.docs of a query of this size: at most size results, in any
\* order, any of them more than once.
Responses(size) ==
    UNION {[1..n -> Results] : n \in 0..Min(size, MaxResults)}

\* similaritySearchVectorWithScore(query, 4) is called.
CallSearch ==
    \E query \in QueryLengths :
        /\ Begin(StartSearch(
                     [Fresh("similaritySearchVectorWithScore") EXCEPT
                          !.result.arg = <<query>>],
                     query, 4, <<>>))
        /\ UNCHANGED <<remote, retryOptions, storeConfig>>

\* similaritySearchVectorWithScore(query, k, filter) is called.
CallSearchFiltered ==
    \E k \in SearchSizes, filter \in Filters :
        /\ Begin(StartSearch(
                     [Fresh("similaritySearchVectorWithScore") EXCEPT
                          !.result.arg = <<VectorDimensions>>],
                     VectorDimensions, k, filter))
        /\ UNCHANGED <<remote, retryOptions, storeConfig>>

\* similaritySearch(query, k, filter) is called, with or without k.
CallSimilaritySearch ==
    \E k \in {<<>>, <<1>>}, filter \in Filters :
        /\ Begin(StartSimilaritySearch(Fresh("similaritySearch"), k, filter))
        /\ UNCHANGED <<remote, retryOptions, storeConfig>>

\* The options a caller of maxMarginalRelevanceSearch passes.
MMROptions ==
    {[k |-> k, fetchK |-> fetchK, lambda4 |-> lambda4, filter |-> filter] :
         k \in {<<>>} \cup {<<n>> : n \in 0..MaxResults},
         fetchK \in {<<>>, <<2>>},
         lambda4 \in {<<>>, <<0>>, <<1>>, <<3>>, <<4>>},
         filter \in {<<>>, StringFilter}}
    \cup {[k |-> <<2>>, fetchK |-> <<>>, lambda4 |-> <<>>,
           filter |-> filter] : filter \in Filters}

\* maxMarginalRelevanceSearch(query, options) is called.
CallMMR ==
    \E options \in MMROptions :
        /\ Begin(StartMMR(Fresh("maxMarginalRelevanceSearch"), options))
        /\ UNCHANGED <<remote, retryOptions, storeConfig>>

\* embeddings.embedQuery(query) ends: with a vector of the embedding model's
\* dimension, or with a failure.
EmbedQueryDone ==
    /\ pc = "embed_query"
    /\ \/ \E dim \in VectorLengths :
              SetCtl(IF Top(frames) = "similaritySearch"
                     THEN StartSearch(Ctl, dim, av.search[1].k,
                                      av.search[1].filter)
                     ELSE StartSearch(Ctl, dim, av.mmr[1].fetchK,
                                      av.mmr[1].filter))
       \/ SetCtl(Throw(Ctl, PlainError(<<"embedding failed">>)))
    /\ UNCHANGED <<remote, upserts, retryOptions, storeConfig, requests>>

\* A collections.query request as the service received it, and what it
\* answered.
QueryRequest(ok, docs) ==
    [op |-> "query", body |-> av.request[1], ok |-> ok, docs |-> docs]

\* The collections.query call of a search ends; the request is recorded.
QueryDone ==
    /\ pc = "retry_call"
    /\ retry.fn = "query"
    /\ \/ /\ remote # "ABSENT"
          /\ \E docs \in Responses(av.request[1].size) :
                 /\ requests' = Append(requests, QueryRequest(TRUE, docs))
                 /\ SetCtl(RetryOnSuccess(Ctl, docs))
       \/ /\ remote = "ABSENT"
          /\ requests' = Append(requests, QueryRequest(FALSE, <<>>))
          /\ SetCtl(RetryOnFailure(Ctl, NotFound))
       \/ /\ requests' = Append(requests, QueryRequest(FALSE, <<>>))
          /\ \E error \in RemoteFailures : SetCtl(RetryOnFailure(Ctl, error))
    /\ UNCHANGED <<remote, upserts, retryOptions, storeConfig>>

----------------------------------------------------------------------------
(* deleteCollection and deleteDocuments. *)

\* deleteCollection() is called.
CallDeleteCollection ==
    /\ Begin([Fresh("deleteCollection") EXCEPT
                  !.pc = "delete_collection",
                  !.frames = <<"deleteCollection">>])
    /\ UNCHANGED <<remote, retryOptions, storeConfig>>

\* The collections.delete call of deleteCollection ends.
DeleteCollectionDone ==
    /\ pc = "delete_collection"
    /\ \/ /\ remote # "ABSENT"
          /\ remote' = "ABSENT"
          /\ SetCtl(Return(Ctl, ""))
       \/ /\ remote = "ABSENT"
          /\ remote' = remote
          /\ SetCtl(Throw(Ctl, NotFound))
       \/ /\ \E error \in RemoteFailures : SetCtl(Throw(Ctl, error))
          /\ remote' = remote
    /\ UNCHANGED <<upserts, retryOptions, storeConfig, requests>>

RECURSIVE StartDeleteDocumentsIdsFirst(_, _)
\* StartDeleteDocuments trying the ids branch before the deleteAll branch.
StartDeleteDocumentsIdsFirst(c, options) ==
    LET c1 == [c EXCEPT !.frames = Append(@, "deleteDocuments")]
        idsToDelete == IdsToDelete(getAllDocuments)
    IN  IF options.ids # <<>> /\ Len(options.ids[1]) > 0
        THEN [c1 EXCEPT !.pc = "delete_docs", !.av.ids = options.ids[1]]
        ELSE IF options.deleteAll
        THEN IF Len(idsToDelete) > 0
             THEN StartDeleteDocumentsIdsFirst(
                      c1, [deleteAll |-> FALSE, ids |-> <<idsToDelete>>,
                           filter |-> <<>>])
             ELSE Return(c1, "")
        ELSE Throw(c1, PlainError(<<"Must provide either ids, filter, or",
                                    "deleteAll option">>))

RECURSIVE StartDeleteDocuments(_, _)
\* deleteDocuments(options) up to its first remote call.  options is
\* [deleteAll, ids, filter]: deleteAll is true or not, ids is <<>> or <<the
\* list of ids>> and filter a filter argument.
StartDeleteDocuments(c, options) ==
    LET c1 == [c EXCEPT !.frames = Append(@, "deleteDocuments")]
        allDocs == getAllDocuments
    IN  IF options.deleteAll
        THEN LET idsToDelete == IdsToDelete(allDocs)
             IN  IF Len(idsToDelete) > 0
                 THEN StartDeleteDocuments(
                          c1, [deleteAll |-> FALSE, ids |-> <<idsToDelete>>,
                               filter |-> <<>>])
                 ELSE Return(c1, "")
        ELSE IF options.ids # <<>> /\ Len(options.ids[1]) > 0
        THEN [c1 EXCEPT !.pc = "delete_docs", !.av.ids = options.ids[1]]
        ELSE IF options.filter # <<>>
        THEN IF options.filter[1].kind = "function"
             THEN LET idsToDelete ==
                          IdsToDelete(FilterDocs(allDocs, options.filter[1]))
                  IN  IF Len(idsToDelete) > 0
                      THEN StartDeleteDocuments(
                               c1, [deleteAll |-> FALSE,
                                    ids |-> <<idsToDelete>>,
                                    filter |-> <<>>])
                      ELSE Return(c1, "")
             ELSE Throw(c1, PlainError(
                                <<"Delete operations only support",
                                  "function-based filters, not object filters">>))
        ELSE Throw(c1, PlainError(<<"Must provide either ids, filter, or",
                                    "deleteAll option">>))

\* The options a caller of deleteDocuments passes.
DeleteOptions ==
    {[deleteAll |-> deleteAll, ids |-> ids, filter |-> filter] :
         deleteAll \in BOOLEAN,
         ids \in {<<>>, <<<<>>>>, <<<<"a">>>>, <<<<"b", "a">>>>},
         filter \in Filters}

\* deleteDocuments(options) is called.
CallDeleteDocuments ==
    \E options \in DeleteOptions :
        /\ Begin(StartDeleteDocuments(
                     [Fresh("deleteDocuments") EXCEPT !.av.del = <<options>>],
                     options))
        /\ UNCHANGED <<remote, retryOptions, storeConfig>>

\* A collections.docs.delete request as the service received it.
DeleteRequest(ok) ==
    [op |-> "docs.delete", body |-> [ids |-> av.ids], ok |-> ok,
     docs |-> <<>>]

\* The collections.docs.delete call of deleteDocuments ends; the request is
\* recorded.
DeleteDocsDone ==
    /\ pc = "delete_docs"
    /\ \/ /\ remote # "ABSENT"
          /\ requests' = Append(requests, DeleteRequest(TRUE))
          /\ SetCtl(Return(Ctl, ""))
       \/ /\ remote = "ABSENT"
          /\ requests' = Append(requests, DeleteRequest(FALSE))
          /\ SetCtl(Throw(Ctl, NotFound))
       \/ /\ requests' = Append(requests, DeleteRequest(FALSE))
          /\ \E error \in RemoteFailures : SetCtl(Throw(Ctl, error))
    /\ UNCHANGED <<remote, upserts, retryOptions, storeConfig>>

\* How many calls a sequence of direct ensureCollectionExists calls has.
EnsureCalls == 2

\* ensureCollectionExists() is called on its own: the next call of the
\* running sequence of calls, or the first call of a new sequence.
CallEnsure ==
    LET continues == ens.calls \in 1..(EnsureCalls - 1)
        c == [Fresh("ensureCollectionExists") EXCEPT
                  !.pc = "ensure_list",
                  !.frames = <<"ensureCollectionExists">>,
                  !.ens.stage = "try",
                  !.ens.calls = IF continues THEN ens.calls + 1 ELSE 1,
                  !.ens.before = IF continues THEN ens.before + ens.creates
                                 ELSE 0]
    IN  /\ Begin(c)
        /\ UNCHANGED <<remote, retryOptions, storeConfig>>

\* The service changes the status of the collection, which goes on existing.
StatusChange ==
    /\ remote # "ABSENT"
    /\ RemoteChange
    /\ remote' # "ABSENT"

\* The service finishes creating the collection.
CreationEnds ==
    /\ remote = "CREATING"
    /\ RemoteChange
    /\ remote' = "ACTIVE"

----------------------------------------------------------------------------
(* Two addVectors calls running concurrently on the same store. *)

\* The running caller is suspended at an await and the event loop goes on
\* with the other caller's operation.
Switch ==
    /\ other.result.op # ""
    /\ SetLocals(other)
    /\ other' = Ctl
    /\ UNCHANGED <<remote, upserts, retryOptions, storeConfig, requests>>

\* The first caller calls addVectors with one valid pair.
CallAddVectorsFirst ==
    /\ result.op = ""
    /\ Begin(StartAddVectors(Fresh("addVectors"), <<VectorDimensions>>,
                             Docs(1)))
    /\ UNCHANGED <<remote, retryOptions, storeConfig>>

\* The second caller calls addVectors with one valid pair while the call of
\* the first has not finished.
CallAddVectorsSecond ==
    /\ pc # "idle"
    /\ other.result.op = ""
    /\ other' = StartAddVectors(Fresh("addVectors"), <<VectorDimensions>>,
                                Docs(1))
    /\ UNCHANGED <<pc, frames, result, retry, wait, ens, av, remote, upserts,
                   retryOptions, storeConfig, requests>>

----------------------------------------------------------------------------
(* The constructor. *)

\* A number given as vectorDimensions: twice its value, so that halves are
\* numbers of the model, or NaN.
Num(twice) == [nan |-> FALSE, twice |-> twice]

NotANumber == [nan |-> TRUE, twice |-> 0]

\* !config[key] for a string option: undefined or "".
FalsyString(config, key) == key \notin DOMAIN config \/ config[key] = ""

\* !config[key] for a number option: undefined, 0 or NaN.
FalsyNumber(config, key) ==
    \/ key \notin DOMAIN config
    \/ config[key].nan
    \/ config[key].twice = 0

\* validateConfig testing projectApiKey only.
validateConfigKeyOnly(config) ==
    IF FalsyString(config, "projectApiKey")
    THEN <<PlainError(<<"projectApiKey is required">>)>>
    ELSE <<>>

\* validateConfig(config): <<>> or <<the error thrown>>.
validateConfig(config) ==
    IF FalsyString(config, "projectApiKey")
    THEN <<PlainError(<<"projectApiKey is required">>)>>
    ELSE IF FalsyString(config, "collectionName")
    THEN <<PlainError(<<"collectionName is required">>)>>
    ELSE IF \/ FalsyNumber(config, "vectorDimensions")
            \/ config["vectorDimensions"].twice <= 0
    THEN <<PlainError(<<"vectorDimensions must be a positive number">>)>>
    ELSE <<>>

\* new LambdaDBVectorStore(embeddings, config): validateConfig throws, or
\* the constructor returns the store, after calling validateCollectionExists
\* without awaiting it when validateCollection is set.  Building the client
\* from the API key and the server URL makes no remote call.
Construct(c, config) ==
    LET invalid == validateConfig(config)
    IN  IF invalid # <<>>
        THEN Throw(c, invalid[1])
        ELSE IF StoreConfig(config).validateCollection
        THEN [Resolved(c, "store") EXCEPT !.pc = "validate_get"]
        ELSE Resolved(c, "store")

\* An option of a configuration: absent when opt is <<>>.
Option(key, opt) == IF opt = <<>> THEN NoOptions ELSE (key :> opt[1])

\* The configurations a caller constructs a store with: each required option
\* missing, empty or zero, and given; dimensions -1, 2.5, 3, 1536 and NaN.
ConstructorConfigs ==
    {Option("projectApiKey", key) @@ Option("collectionName", name)
         @@ Option("vectorDimensions", dimensions)
         @@ Option("validateCollection", validate) :
        key \in {<<>>, <<"">>, <<"key">>},
        name \in {<<>>, <<"">>, <<"docs">>},
        dimensions \in {<<>>, <<NotANumber>>}
                           \cup {<<Num(t)>> : t \in {-2, 0, 5, 6, 3072}},
        validate \in {<<>>, <<FALSE>>, <<TRUE>>}}

\* The constructor is called with the configuration held by arg; a store
\* that is returned has this.config and this.retryOptions set.
CallConstructor ==
    /\ result.op = ""
    /\ result.arg # <<>>
    /\ LET config == result.arg[1]
           c == Construct([Fresh("constructor") EXCEPT
                               !.result.arg = result.arg], config)
       IN  /\ Begin(c)
           /\ storeConfig' = IF c.result.status = "resolved"
                             THEN StoreConfig(config)
                             ELSE storeConfig
    /\ UNCHANGED <<remote, retryOptions>>

\* The collections.get call of the validateCollectionExists call that the
\* constructor started ends; when it fails, the promise is rejected with the
\* error thrown in the catch handler and nothing handles it: error holds it.
ValidateGetDone ==
    /\ pc = "validate_get"
    /\ pc' = "idle"
    /\ \/ /\ remote # "ABSENT"
          /\ requests' = Append(requests, [op |-> "get", ok |-> TRUE])
          /\ UNCHANGED result
       \/ /\ remote = "ABSENT"
          /\ requests' = Append(requests, [op |-> "get", ok |-> FALSE])
          /\ result' = [result EXCEPT
                            !.error = <<PlainError(
                                <<"Collection validation failed:",
                                  "Collection", storeConfig.collectionName,
                                  "does not exist:", "Error:">>
                                \o NotFound.message)>>]
    /\ UNCHANGED <<frames, retry, wait, ens, av, remote, upserts,
                   retryOptions, storeConfig, other>>

----------------------------------------------------------------------------
(* Specifications. *)

\* No operation has run yet.
InitCaller ==
    /\ pc = "idle"
    /\ frames = <<>>
    /\ result = NoResult
    /\ retry = NoRetry
    /\ wait = NoWait
    /\ ens = NoEns
    /\ av = NoAv
    /\ upserts = <<>>
    /\ requests = <<>>
    /\ other = NoCaller

Init ==
    /\ InitCaller
    /\ remote \in RemoteStates
    /\ retryOptions \in {MergeOptions(o) : o \in StoreOptionSets}
    /\ storeConfig = StoreConfig(NoOptions)

\* The store's operations against the remote service.
Next ==
    \/ CallCreateCollection
    \/ CallGetCollectionInfo
    \/ CallAddVectors
    \/ CreateDone
    \/ GetCollectionInfoDone
    \/ EnsureListDone
    \/ UpsertDone
    \/ RetryTimer
    \/ WaitFetchDone
    \/ WaitTimer
    \/ RemoteChange

Spec == Init /\ [][Next]_vars

\* withRetry called directly with an arbitrary operation.
NextRetry ==
    \/ CallWithRetry
    \/ FnDone
    \/ RetryTimer

\* withRetry uses neither the store nor the remote service.
InitRetry ==
    /\ InitCaller
    /\ remote = "ABSENT"
    /\ retryOptions = DEFAULT_RETRY_OPTIONS
    /\ storeConfig = StoreConfig(NoOptions)

SpecRetry == InitRetry /\ [][NextRetry]_vars

\* waitForCollectionActive on its own against the remote service.
NextWait ==
    \/ CallWait
    \/ WaitFetchDone
    \/ WaitTimer
    \/ RemoteChange

\* waitForCollectionActive makes no call through withRetry.
InitWait ==
    /\ InitCaller
    /\ remote \in RemoteStates
    /\ retryOptions = DEFAULT_RETRY_OPTIONS
    /\ storeConfig = StoreConfig(NoOptions)

SpecWait == InitWait /\ [][NextWait]_vars

\* The caller's steps of waitForCollectionActive are eventually taken: a
\* pending collections.get call returns and a pending timer fires.
FairSpecWait ==
    SpecWait /\ WF_vars(WaitFetchDone) /\ WF_vars(WaitTimer)

\* ensureCollectionExists called repeatedly while the collection exists.
NextEnsure ==
    \/ CallEnsure
    \/ EnsureListDone
    \/ CreateDone
    \/ RetryTimer
    \/ StatusChange

\* The data path: addDocuments, addVectors and the vector search of a store
\* with the default retry options, against a service where only this store
\* creates the collection.
NextData ==
    \/ CallAddDocuments
    \/ CallAddVectorsMany
    \/ CallSearch
    \/ EmbedDone
    \/ EnsureListDone
    \/ CreateDone
    \/ WaitFetchDone
    \/ WaitTimer
    \/ UpsertDone
    \/ QueryDone
    \/ RetryTimer
    \/ CreationEnds
    \/ CallSearchFiltered
    \/ CallMMR
    \/ EmbedQueryDone
    \/ CallCreateCollection
    \/ CallGetCollectionInfo
    \/ GetCollectionInfoDone
    \/ CallDeleteCollection
    \/ DeleteCollectionDone
    \/ CallDeleteDocuments
    \/ DeleteDocsDone

InitData ==
    /\ InitCaller
    /\ remote \in {"ABSENT", "CREATING", "ACTIVE"}
    /\ retryOptions = DEFAULT_RETRY_OPTIONS
    /\ storeConfig = StoreConfig(NoOptions)

SpecData == InitData /\ [][NextData]_vars

\* handleLambdaDBError is a pure function of its argument.
NextClassify ==
    \/ Classify
    \/ ClassifyAgain

\* A raw error is at hand.
InitClassify ==
    /\ pc = "idle"
    /\ frames = <<>>
    /\ \E error \in RawErrors : result = [NoResult EXCEPT !.arg = <<error>>]
    /\ retry = NoRetry
    /\ wait = NoWait
    /\ ens = NoEns
    /\ av = NoAv
    /\ upserts = <<>>
    /\ requests = <<>>
    /\ other = NoCaller
    /\ remote = "ABSENT"
    /\ retryOptions = DEFAULT_RETRY_OPTIONS
    /\ storeConfig = StoreConfig(NoOptions)

SpecClassify == InitClassify /\ [][NextClassify]_vars

\* The translation of a document to a wire document and back is a pure
\* function of the document and the field names.
NextTranslate == RoundTrip

\* A document is at hand, in a store of any configuration of field names.
InitTranslate ==
    /\ pc = "idle"
    /\ frames = <<>>
    /\ \E doc \in Documents : result = [NoResult EXCEPT !.arg = <<doc>>]
    /\ retry = NoRetry
    /\ wait = NoWait
    /\ ens = NoEns
    /\ av = NoAv
    /\ upserts = <<>>
    /\ requests = <<>>
    /\ other = NoCaller
    /\ remote = "ABSENT"
    /\ retryOptions = DEFAULT_RETRY_OPTIONS
    /\ storeConfig \in {StoreConfig(given) : given \in FieldConfigs}

SpecTranslate == InitTranslate /\ [][NextTranslate]_vars

\* The configurations a store is constructed with, as far as they name the
\* fields and the consistency of reads.
ConfigInputs ==
    {NoOptions,
     [defaultConsistentRead |-> TRUE],
     [defaultConsistentRead |-> FALSE],
     [textField |-> "text", vectorField |-> "emb"],
     [textField |-> "text", vectorField |-> "emb",
      defaultConsistentRead |-> TRUE]}

\* The search operations of a store of any of these configurations, with the
\* default retry options, against a collection that exists or not.
NextQuery ==
    \/ CallSearch
    \/ CallSearchFiltered
    \/ CallSimilaritySearch
    \/ CallMMR
    \/ EmbedQueryDone
    \/ QueryDone
    \/ RetryTimer

InitQuery ==
    /\ InitCaller
    /\ remote \in {"ABSENT", "ACTIVE"}
    /\ retryOptions = DEFAULT_RETRY_OPTIONS
    /\ storeConfig \in {StoreConfig(given) : given \in ConfigInputs}

SpecQuery == InitQuery /\ [][NextQuery]_vars

InitEnsure ==
    /\ InitCaller
    /\ remote \in Statuses
    /\ retryOptions \in {MergeOptions(o) : o \in StoreOptionSets}
    /\ storeConfig = StoreConfig(NoOptions)

SpecEnsure == InitEnsure /\ [][NextEnsure]_vars

\* Two concurrent addVectors calls against a collection that only they
\* create.
NextRace ==
    \/ CallAddVectorsFirst
    \/ CallAddVectorsSecond
    \/ Switch
    \/ EnsureListDone
    \/ CreateDone
    \/ RetryTimer
    \/ WaitFetchDone
    \/ WaitTimer
    \/ UpsertDone
    \/ CreationEnds

\* No call has been made; the collection does not exist.
InitRace ==
    /\ InitCaller
    /\ remote = "ABSENT"
    /\ retryOptions = DEFAULT_RETRY_OPTIONS
    /\ storeConfig = StoreConfig(NoOptions)

SpecRace == InitRace /\ [][NextRace]_vars

\* The constructor called with any configuration.
NextConstruct ==
    \/ CallConstructor
    \/ ValidateGetDone

\* A configuration is at hand; no store exists yet.
InitConstruct ==
    /\ pc = "idle"
    /\ frames = <<>>
    /\ \E config \in ConstructorConfigs :
           result = [NoResult EXCEPT !.arg = <<config>>]
    /\ retry = NoRetry
    /\ wait = NoWait
    /\ ens = NoEns
    /\ av = NoAv
    /\ upserts = <<>>
    /\ requests = <<>>
    /\ other = NoCaller
    /\ remote \in {"ABSENT", "ACTIVE"}
    /\ retryOptions = DEFAULT_RETRY_OPTIONS
    /\ storeConfig = NoOptions

SpecConstruct == InitConstruct /\ [][NextConstruct]_vars

----------------------------------------------------------------------------
(* Properties of withRetry, checked under SpecRetry. *)

\* The error matches an entry of retryableErrors by name, by a part of its
\* message or by its system code.
MatchesRetryable(config, error) ==
    \E t \in config.retryableErrors :
        \/ error.name = t
        \/ \E i \in DOMAIN error.message : error.message[i] = t
        \/ error.code = t

\* min(maxDelay, initialDelay * backoffMultiplier^(a-1))
BackoffAt(config, a) ==
    LET d == config.initialDelay * Pow(config.backoffMultiplier, a - 1)
    IN  IF d < config.maxDelay THEN d ELSE config.maxDelay

\* initialDelay=1000, backoffMultiplier=2, maxDelay=10000
DefaultDelays(config) ==
    /\ config.initialDelay = 1000
    /\ config.backoffMultiplier = 2
    /\ config.maxDelay = 10000

\* C1: once the operation has succeeded, after k failures, withRetry has
\* returned the operation's value, the operation was invoked k+1 times
\* (k < maxAttempts), k delays were waited, and nothing runs after the success.
C1_ReturnsSuccessAfterFailures ==
    (retry.fn = "fn" /\ retry.succeeded) =>
        /\ pc = "idle"
        /\ result.status = "resolved"
        /\ result.value = retry.value
        /\ retry.calls = retry.failures + 1
        /\ Len(retry.delays) = retry.failures
        /\ retry.failures < retry.config.maxAttempts

C1_Witness ==
    /\ retry.fn = "fn"
    /\ retry.succeeded
    /\ retry.failures = 2
    /\ result.value = "v2"

\* C2: a failure that matches no entry of retryableErrors ends withRetry at
\* once: no delay follows it and it is re-raised unchanged; when it is the
\* first failure the operation was invoked exactly once, for every maxAttempts.
C2_NonRetryableFailsAtOnce ==
    (/\ retry.fn = "fn"
     /\ retry.lastError # <<>>
     /\ ~MatchesRetryable(retry.config, retry.lastError[1])) =>
        /\ pc = "idle"
        /\ result.status = "rejected"
        /\ result.error = retry.lastError
        /\ retry.calls = retry.failures
        /\ Len(retry.delays) = retry.failures - 1
        /\ (retry.failures = 1 => retry.calls = 1 /\ retry.delays = <<>>)

C2_Witness ==
    /\ retry.fn = "fn"
    /\ retry.config.maxAttempts >= 3
    /\ retry.lastError = <<HttpError(503, <<"Service Unavailable">>, <<>>)>>
    /\ retry.calls = 1
    /\ pc = "idle"

\* C3: when the operation has only failed, with retryable errors, withRetry
\* ends exactly at attempt N = maxAttempts: N invocations, N-1 delays, and the
\* error raised is the last failure as it was thrown.
C3_RetryableExhaustsAttempts ==
    (/\ retry.fn = "fn"
     /\ retry.lastError # <<>>
     /\ ~retry.succeeded
     /\ MatchesRetryable(retry.config, retry.lastError[1])) =>
        IF pc = "idle"
        THEN /\ result.status = "rejected"
             /\ retry.calls = retry.config.maxAttempts
             /\ Len(retry.delays) = retry.config.maxAttempts - 1
             /\ result.error = retry.lastError
        ELSE retry.calls < retry.config.maxAttempts

C3_Witness ==
    /\ retry.fn = "fn"
    /\ pc = "idle"
    /\ result.status = "rejected"
    /\ retry.config.maxAttempts = 3
    /\ retry.calls = 3
    /\ result.error = <<NetError("ENOTFOUND", <<"getaddrinfo">>)>>

\* C4 as stated: a delay that follows a failure without a retryAfter hint is
\* min(maxDelay, initialDelay * backoffMultiplier^(a-1)), and with the default
\* delays it is 1000, 2000, 4000 ms and 10000 ms from then on.
C4_AsStated ==
    retry.fn = "fn" =>
        \A a \in DOMAIN retry.delays :
            retry.delays[a].hint = <<>> =>
                /\ retry.delays[a].ms = BackoffAt(retry.config, a)
                /\ DefaultDelays(retry.config) =>
                       retry.delays[a].ms =
                           CASE a = 1 -> 1000
                             [] a = 2 -> 2000
                             [] a = 3 -> 4000
                             [] OTHER -> 10000

\* C4: a delay that follows a failure without a retryAfter hint is
\* min(maxDelay, initialDelay * backoffMultiplier^(a-1)); with the default
\* delays it is 1000, 2000, 4000, 8000 ms and 10000 ms from then on.
C4_BackoffDelays ==
    retry.fn = "fn" =>
        \A a \in DOMAIN retry.delays :
            retry.delays[a].hint = <<>> =>
                /\ retry.delays[a].ms = BackoffAt(retry.config, a)
                /\ DefaultDelays(retry.config) =>
                       retry.delays[a].ms =
                           CASE a = 1 -> 1000
                             [] a = 2 -> 2000
                             [] a = 3 -> 4000
                             [] a = 4 -> 8000
                             [] OTHER -> 10000

C4_Witness ==
    /\ retry.fn = "fn"
    /\ DefaultDelays(retry.config)
    /\ Len(retry.delays) = 5
    /\ \A a \in DOMAIN retry.delays : retry.delays[a].hint = <<>>
    /\ retry.delays[5].ms = 10000

\* C5 as stated: the delay after a rate-limit failure with a retryAfter hint
\* of s >= 1 seconds is exactly s*1000 ms, not capped by maxDelay.
C5_AsStated ==
    retry.fn = "fn" =>
        \A a \in DOMAIN retry.delays :
            (retry.delays[a].hint # <<>> /\ retry.delays[a].hint[1] >= 1) =>
                retry.delays[a].ms = retry.delays[a].hint[1] * 1000

\* C5: the delay after a rate-limit failure with a retryAfter hint of s >= 1
\* seconds is min(s*1000, maxDelay): the hint replaces the exponential delay
\* and is capped by maxDelay; a hint of 0 leaves the exponential delay.
C5_HintDelayCapped ==
    retry.fn = "fn" =>
        \A a \in DOMAIN retry.delays :
            retry.delays[a].hint # <<>> =>
                LET s == retry.delays[a].hint[1]
                    max == retry.config.maxDelay
                IN  retry.delays[a].ms =
                        IF s >= 1
                        THEN (IF s * 1000 < max THEN s * 1000 ELSE max)
                        ELSE BackoffAt(retry.config, a)

C5_Witness ==
    /\ retry.fn = "fn"
    /\ \E a \in DOMAIN retry.delays :
           /\ retry.delays[a].hint = <<30>>
           /\ retry.delays[a].ms = 10000
           /\ retry.config.maxDelay = 10000

----------------------------------------------------------------------------
(* Properties of createCollection, checked under Spec. *)

CreateCollectionResolves ==
    /\ result.op = "createCollection"
    /\ result.status = "pending"
    /\ result'.status = "resolved"

\* C6: createCollection resolves only after its create call succeeded and a
\* later status fetch returned ACTIVE (the collection is ACTIVE at the moment
\* it resolves); no status is fetched before the create call succeeded; when
\* the create call finally fails or the wait fails, createCollection fails.
C6_CreateCollectionWaitsForActive ==
    /\ [](result.op = "createCollection" =>
            /\ result.status = "resolved" =>
                   /\ retry.fn = "create"
                   /\ retry.outcome = "returned"
                   /\ wait.outcome = "returned"
                   /\ wait.sawActive
            /\ wait.outcome # "none" =>
                   (retry.fn = "create" /\ retry.outcome = "returned")
            /\ (retry.outcome = "threw" \/ wait.outcome = "threw") =>
                   (pc = "idle" /\ result.status = "rejected"))
    /\ [][CreateCollectionResolves => remote' = "ACTIVE"]_vars

C6_Witness ==
    /\ result.op = "createCollection"
    /\ result.status = "resolved"
    /\ wait.fetches = 3
    /\ remote = "ACTIVE"

----------------------------------------------------------------------------
(* Properties of waitForCollectionActive, checked under SpecWait. *)

\* C7 as stated: once a status fetch returned FAILED or ERROR the wait has
\* failed, with the error naming that status: no fetch or sleep follows.
C7_AsStated ==
    (wait.outcome # "none" /\ wait.terminal # "") =>
        /\ pc = "idle"
        /\ wait.outcome = "threw"
        /\ result.status = "rejected"
        /\ result.error = <<StatusError(wait.terminal)>>

\* C8: when m non-terminal statuses and then ACTIVE were fetched, the wait
\* has succeeded after m+1 status fetches and m sleeps, the last fetch started
\* within the timeout.
C8_ActiveAfterNonTerminal ==
    (/\ result.op = "waitForCollectionActive"
     /\ wait.clean
     /\ wait.sawActive) =>
        /\ pc = "idle"
        /\ result.status = "resolved"
        /\ wait.outcome = "returned"
        /\ wait.fetches = wait.m + 1
        /\ wait.sleeps = wait.m
        /\ wait.fetchAt < wait.maxWaitTimeMs

C8_Witness ==
    /\ result.op = "waitForCollectionActive"
    /\ result.status = "resolved"
    /\ wait.clean
    /\ wait.m = 2
    /\ wait.fetches = 3

\* C9: the wait ends whenever its status fetches return and its timers
\* fire; no status fetch starts once elapsed >= timeoutMs; and a wait whose
\* fetches all returned a non-terminal status ends with the timeout error.
C9_WaitTerminates ==
    /\ [](wait.fetches > 0 => wait.fetchAt < wait.maxWaitTimeMs)
    /\ []((/\ result.op = "waitForCollectionActive"
           /\ pc = "idle"
           /\ wait.clean
           /\ ~wait.sawActive) =>
              /\ result.status = "rejected"
              /\ result.error = <<TimeoutError>>)
    /\ (pc # "idle") ~> (pc = "idle")

C9_Witness ==
    /\ result.op = "waitForCollectionActive"
    /\ pc = "idle"
    /\ wait.clean
    /\ wait.sleeps = 30
    /\ result.error = <<TimeoutError>>

----------------------------------------------------------------------------
(* Properties of addVectors, checked under Spec. *)

\* C10 as stated: every upsert request is issued after ensureCollectionExists
\* found the collection existing in ACTIVE state, or created it and awaited
\* it until ACTIVE.
C10_AsStated ==
    \A i \in DOMAIN upserts :
        \/ upserts[i].ens.listed = "found" /\ upserts[i].ens.found = "ACTIVE"
        \/ upserts[i].ens.awaited

----------------------------------------------------------------------------
(* Properties of ensureCollectionExists: C11 is checked under SpecEnsure,  *)
(* C12 under Spec.                                                         *)

\* C11 as stated: two calls in sequence against a collection that exists
\* make at most one create attempt in total, and neither fails.
C11_AsStated ==
    (result.op = "ensureCollectionExists" /\ ens.calls = 2) =>
        /\ ens.before + ens.creates <= 1
        /\ result.status # "rejected"

\* C11: against a collection that exists, each call of a sequence of calls
\* makes at most one create attempt, and none when its list call succeeds
\* (so two calls make at most two in total), and no call fails.
C11_EnsureTwice ==
    result.op = "ensureCollectionExists" =>
        /\ ens.creates <= 1
        /\ ens.listed = "found" => ens.creates = 0
        /\ ens.before + ens.creates <= ens.calls
        /\ result.status # "rejected"
        /\ pc = "idle" => result.status = "resolved"

C11_Witness ==
    /\ result.op = "ensureCollectionExists"
    /\ ens.calls = 2
    /\ ens.before = 1
    /\ ens.creates = 1
    /\ ens.swallowed
    /\ result.status = "resolved"

\* C12: ensureCollectionExists never fails: once addVectors has entered it,
\* addVectors fails only with the final failure of an upsert call, whatever
\* the list call, the create calls and the waits ended with, and it resolves
\* only after every chunk's upsert.
C12_EnsureNeverFails ==
    (result.op = "addVectors" /\ ens.stage # "none" /\ pc = "idle") =>
        /\ result.status \in {"resolved", "rejected"}
        /\ result.status = "rejected" =>
               /\ retry.fn = "upsert"
               /\ retry.outcome = "threw"
               /\ upserts # <<>>
               /\ ~upserts[Len(upserts)].ok
        /\ result.status = "resolved" =>
               /\ av.batch = Len(av.batches)
               /\ Len(av.batches) > 0 => upserts[Len(upserts)].ok

C12_Witness ==
    /\ result.op = "addVectors"
    /\ pc = "idle"
    /\ ens.listed = "failed"
    /\ ens.swallowed
    /\ result.status = "resolved"
    /\ upserts # <<>>

----------------------------------------------------------------------------
(* Properties of the data path, checked under SpecData. *)

\* The error of validateVectorDimensions for a vector of this length.
MismatchError(length) ==
    PlainError(<<"Vector dimension mismatch: expected",
                 ToString(VectorDimensions), "got", ToString(length)>>)

\* No remote call was made by the running or last operation.
NoRemoteCall ==
    /\ retry = NoRetry
    /\ wait = NoWait
    /\ ens = NoEns
    /\ upserts = <<>>

\* C13: a search whose query vector has another length than vectorDimensions
\* has failed, at the call, with the dimension-mismatch error that names
\* vectorDimensions and the query's length, and no query was sent.
C13_SearchRejectsWrongLength ==
    (/\ result.op = "similaritySearchVectorWithScore"
     /\ result.arg[1] # VectorDimensions) =>
        /\ pc = "idle"
        /\ result.status = "rejected"
        /\ result.error = <<MismatchError(result.arg[1])>>
        /\ NoRemoteCall

C13_Witness ==
    /\ result.op = "similaritySearchVectorWithScore"
    /\ result.arg = <<2>>
    /\ result.status = "rejected"
    /\ result.error = <<MismatchError(2)>>

\* C14 as stated: an addVectors call with as many documents as vectors and a
\* vector of wrong length at any index has failed, at the call, with the
\* dimension-mismatch error and without a remote call; no upsert request
\* carries a vector of wrong length.
C14_AsStated ==
    /\ (/\ result.op = "addVectors"
        /\ Len(av.vectors) = Len(av.documents)
        /\ \E i \in DOMAIN av.vectors : av.vectors[i] # VectorDimensions) =>
           /\ pc = "idle"
           /\ result.status = "rejected"
           /\ \E i \in DOMAIN av.vectors :
                  result.error = <<MismatchError(av.vectors[i])>>
           /\ NoRemoteCall
    /\ \A r \in DOMAIN upserts : \A j \in DOMAIN upserts[r].docs :
           upserts[r].docs[j].vector = VectorDimensions

\* C15: an addVectors call with another number of documents than of vectors
\* (one of them may be 0) has failed, at the call, with the length-mismatch
\* error and without a remote call.
C15_LengthMismatchRejected ==
    (/\ result.op = "addVectors"
     /\ Len(av.vectors) # Len(av.documents)) =>
        /\ pc = "idle"
        /\ result.status = "rejected"
        /\ result.error =
               <<PlainError(<<"Vectors and documents length mismatch">>)>>
        /\ NoRemoteCall

C15_Witness ==
    /\ result.op = "addVectors"
    /\ Len(av.vectors) = 2
    /\ Len(av.documents) = 0
    /\ result.status = "rejected"

\* C16: an addDocuments call with a text longer than 50,000 characters has
\* failed, at the call, with the error naming the index (from 0) of the first
\* such text, before embedDocuments and any remote call; a call whose texts
\* are all at most 50,000 characters long (exactly 50,000 included) is not
\* rejected for its size and goes on to embedDocuments.
C16_LongTextRejected ==
    (result.op = "addDocuments" /\ av.texts # <<>>) =>
        IF \E i \in DOMAIN av.texts : av.texts[i] >= 50001
        THEN /\ pc = "idle"
             /\ result.status = "rejected"
             /\ \E i \in DOMAIN av.texts :
                    /\ av.texts[i] >= 50001
                    /\ \A j \in 1..(i - 1) : av.texts[j] <= 50000
                    /\ result.error = <<TooLongError(i - 1)>>
             /\ av.embeds = 0
             /\ NoRemoteCall
        ELSE /\ pc = "embed" \/ av.embeds = 1
             /\ \A index \in 0..Len(av.texts) :
                    result.error # <<TooLongError(index)>>

C16_Witness ==
    /\ result.op = "addDocuments"
    /\ av.texts = <<50000, 50001>>
    /\ result.status = "rejected"
    /\ result.error = <<TooLongError(1)>>

\* C17: an addDocuments call with an empty list has resolved at the call,
\* without a call of embedDocuments and without a remote call.
C17_EmptyIsNoOp ==
    (result.op = "addDocuments" /\ av.texts = <<>>) =>
        /\ pc = "idle"
        /\ result.status = "resolved"
        /\ av.embeds = 0
        /\ NoRemoteCall

C17_Witness ==
    /\ result.op = "addDocuments"
    /\ av.texts = <<>>
    /\ result.status = "resolved"
    /\ av.embeds = 0

\* Every upsert request so far was the first attempt of its chunk and
\* succeeded.
EveryUpsertSucceededAtOnce ==
    \A r \in DOMAIN upserts : upserts[r].ok /\ upserts[r].attempt = 1

\* C18: in an addVectors call with n valid pairs whose upserts all succeed
\* at the first attempt, the r-th upsert request carries the wire documents
\* 100(r-1)+1 .. min(100r, n) in input order, wire document i holding vector
\* i and the text of document i (so every chunk but the last has 100 and the
\* last has 1 to 100), and the call resolves after exactly ceil(n/100)
\* requests.
C18_Chunking ==
    (/\ result.op = "addVectors"
     /\ Len(av.vectors) = Len(av.documents)
     /\ \A i \in DOMAIN av.vectors : av.vectors[i] = VectorDimensions
     /\ EveryUpsertSucceededAtOnce) =>
        LET n == Len(av.vectors)
            chunks == (n + 99) \div 100
        IN  /\ Len(upserts) <= chunks
            /\ \A r \in DOMAIN upserts :
                   /\ Len(upserts[r].docs) =
                          IF r < chunks THEN 100 ELSE n - 100 * (chunks - 1)
                   /\ \A j \in DOMAIN upserts[r].docs :
                          /\ upserts[r].docs[j].vector =
                                 av.vectors[100 * (r - 1) + j]
                          /\ upserts[r].docs[j].content =
                                 av.documents[100 * (r - 1) + j]
            /\ result.status = "resolved" => Len(upserts) = chunks

C18_Witness ==
    /\ result.op = "addVectors"
    /\ result.status = "resolved"
    /\ Len(av.vectors) = 201
    /\ Len(upserts) = 3
    /\ EveryUpsertSucceededAtOnce
    /\ Len(upserts[3].docs) = 1

\* C19: the upsert requests of an addVectors call are issued one after the
\* other: the first is attempt 1 of chunk 1; each later one is either the
\* next attempt of the same chunk, after the attempt before it failed, or
\* attempt 1 of the next chunk, after the last attempt of the chunk before it
\* succeeded; attempt a of a chunk follows the a-1 backoff delays of that
\* chunk; and the only request that can be in flight is one of the chunk
\* after the chunks done.
C19_SequentialChunks ==
    result.op = "addVectors" =>
        /\ \A r \in DOMAIN upserts :
               /\ upserts[r].delays = upserts[r].attempt - 1
               /\ upserts[r].batch <= av.batch + 1
               /\ r = 1 => upserts[r].batch = 1 /\ upserts[r].attempt = 1
               /\ r > 1 =>
                      \/ /\ upserts[r].batch = upserts[r - 1].batch
                         /\ upserts[r].attempt = upserts[r - 1].attempt + 1
                         /\ ~upserts[r - 1].ok
                      \/ /\ upserts[r].batch = upserts[r - 1].batch + 1
                         /\ upserts[r].attempt = 1
                         /\ upserts[r - 1].ok
        /\ \A b \in 1..av.batch :
               \E r \in DOMAIN upserts : upserts[r].batch = b /\ upserts[r].ok
        /\ (pc = "retry_call" /\ retry.fn = "upsert") =>
               /\ av.batch < Len(av.batches)
               /\ \A r \in DOMAIN upserts :
                      upserts[r].batch = av.batch + 1 => ~upserts[r].ok

C19_Witness ==
    /\ result.op = "addVectors"
    /\ Len(upserts) = 3
    /\ upserts[1].batch = 1 /\ ~upserts[1].ok
    /\ upserts[2].batch = 1 /\ upserts[2].ok /\ upserts[2].delays = 1
    /\ upserts[3].batch = 2 /\ upserts[3].attempt = 1

----------------------------------------------------------------------------
(* Properties of handleLambdaDBError, checked under SpecClassify. *)

\* The class of typed error the HTTP status maps to, "" for any other status.
ClassOfStatus(status) ==
    CASE status \in {401, 403} -> "LambdaDBAuthenticationError"
      [] status = 404 -> "LambdaDBResourceNotFoundError"
      [] status = 400 -> "LambdaDBValidationError"
      [] status = 429 -> "LambdaDBRateLimitError"
      [] status \in {500, 502, 503, 504} -> "LambdaDBConnectionError"
      [] OTHER -> ""

TypedClasses ==
    {"LambdaDBAuthenticationError", "LambdaDBResourceNotFoundError",
     "LambdaDBValidationError", "LambdaDBRateLimitError",
     "LambdaDBConnectionError"}

\* C20: a raw error with HTTP status 401/403, 404, 400, 429, 500/502/503/504
\* is classified as Authentication, ResourceNotFound, Validation, RateLimit,
\* Connection error, whatever its name and system code; the RateLimit error
\* has the retryAfter parsed from the retry-after header when the header has
\* a value (30 for "30") and none otherwise; every typed error returned holds
\* the raw error.
C20_Classification ==
    result.op = "handleLambdaDBError" =>
        LET raw == result.arg[1]
            typed == result.error[1]
            status == IF raw.status # 0 THEN raw.status ELSE raw.statusCode
        IN  /\ ClassOfStatus(status) # "" =>
                   /\ typed.cls = ClassOfStatus(status)
                   /\ typed.name = ClassOfStatus(status)
            /\ status = 429 =>
                   /\ raw.hdr \in {<<>>, <<<<>>>>} => typed.retryAfter = <<>>
                   /\ raw.hdr \notin {<<>>, <<<<>>>>} =>
                          typed.retryAfter # <<>>
                   /\ raw.hdr = <<<<"3", "0">>>> => typed.retryAfter = <<30>>
            /\ typed.cls # "LambdaDBRateLimitError" => typed.retryAfter = <<>>
            /\ typed.cls \in TypedClasses => typed.orig = <<raw>>

C20_Witness ==
    /\ result.op = "handleLambdaDBError"
    /\ result.arg[1].status = 429
    /\ result.arg[1].name = "ResourceNotFoundError"
    /\ result.arg[1].code = "ECONNREFUSED"
    /\ result.arg[1].hdr = <<<<"3", "0">>>>
    /\ result.error[1].cls = "LambdaDBRateLimitError"
    /\ result.error[1].retryAfter = <<30>>

----------------------------------------------------------------------------
(* Properties of the search path, checked under SpecQuery. *)

\* The query requests of the running or last operation.
QueryRequests == SelectSeq(requests, LAMBDA r : r.op = "query")

\* The response.docs of the query that succeeded.
ResponseDocs == requests[Len(requests)].docs

\* C24 as stated: a store constructed without defaultConsistentRead sends
\* every query with consistentRead true, and without a mapping filter as
\* exactly {size: k, query: {knn: {field, queryVector, k}}, consistentRead:
\* true}; a store constructed with a defaultConsistentRead sends that value.
C24_AsStated ==
    \A i \in 1..Len(QueryRequests) :
        \A given \in ConfigInputs :
            storeConfig = StoreConfig(given) =>
                LET body == QueryRequests[i].body
                    search == av.search[1]
                IN  IF "defaultConsistentRead" \in DOMAIN given
                    THEN body.consistentRead = given.defaultConsistentRead
                    ELSE /\ body.consistentRead = TRUE
                         /\ ~IsObjectFilter(search.filter) =>
                                body = [size |-> search.k,
                                        query |->
                                            [knn |->
                                                 [field |->
                                                      storeConfig.vectorField,
                                                  queryVector |-> search.query,
                                                  k |-> search.k]],
                                        consistentRead |-> TRUE]

C26_ResultOrder ==
    /\ (/\ result.op = "similaritySearchVectorWithScore"
        /\ result.status = "resolved") =>
           /\ Len(result.value) = Len(ResponseDocs)
           /\ \A i \in 1..Len(ResponseDocs) :
                  /\ result.value[i][1] =
                         lambdaDBToDocument(ResponseDocs[i].doc,
                                            storeConfig.textField)
                  /\ ResponseDocs[i].score = <<>> => result.value[i][2] = 0
                  /\ ResponseDocs[i].score # <<>> =>
                         result.value[i][2] = ResponseDocs[i].score[1]
    /\ (result.op = "similaritySearch" /\ result.status = "resolved") =>
           /\ Len(result.value) = Len(ResponseDocs)
           /\ \A i \in 1..Len(ResponseDocs) :
                  result.value[i] =
                      lambdaDBToDocument(ResponseDocs[i].doc,
                                         storeConfig.textField)

C26_Witness ==
    /\ result.op = "similaritySearchVectorWithScore"
    /\ result.status = "resolved"
    /\ Len(ResponseDocs) = 3
    /\ ResponseDocs[1].score = <<>>
    /\ ResponseDocs[2].score = <<9>>
    /\ ResponseDocs[3].score = <<>>
    /\ result.value[1][2] = 0
    /\ result.value[2][2] = 9
    /\ result.value[2][1].pageContent = "alpha"

\* C27: a maxMarginalRelevanceSearch that resolved made its last query with
\* size fetchK and returns min(k, n) documents for the n candidates of the
\* response: candidates at pairwise different positions, the first of them
\* the first candidate; with no candidate it returns the empty list.
C27_MMRCount ==
    (result.op = "maxMarginalRelevanceSearch" /\ result.status = "resolved") =>
        LET n == Len(ResponseDocs)
            k == av.mmr[1].k
            selected == av.selected
        IN  /\ requests[Len(requests)].body.size = av.mmr[1].fetchK
            /\ Len(result.value) = Min(k, n)
            /\ Len(selected) = Len(result.value)
            /\ \A i \in 1..Len(selected) :
                   /\ selected[i] \in 1..n
                   /\ result.value[i] =
                          lambdaDBToDocument(ResponseDocs[selected[i]].doc,
                                             storeConfig.textField)
                   /\ \A j \in 1..Len(selected) :
                          selected[i] = selected[j] => i = j
            /\ (k >= 1 /\ n >= 1) => selected[1] = 1
            /\ n = 0 => result.value = <<>>

C27_Witness ==
    /\ result.op = "maxMarginalRelevanceSearch"
    /\ result.status = "resolved"
    /\ av.mmr[1].k = 2
    /\ av.mmr[1].lambda4 = 0
    /\ Len(ResponseDocs) = 3
    /\ av.selected = <<1, 3>>

----------------------------------------------------------------------------
(* Properties of the public operations, checked under SpecData. *)

\* The operations that catch and classify what they throw.
FacadeOps ==
    {"addDocuments", "addVectors", "similaritySearchVectorWithScore",
     "maxMarginalRelevanceSearch", "createCollection", "deleteCollection",
     "getCollectionInfo", "deleteDocuments"}

\* An error no rule of the classifier applies to: no listed HTTP status, no
\* SDK error name, no connection code.
Unclassifiable(e) ==
    /\ ClassOfStatus(IF e.status # 0 THEN e.status ELSE e.statusCode) = ""
    /\ e.name \notin {"LambdaDBError", "UnauthenticatedError",
                      "ResourceNotFoundError"}
    /\ e.code \notin {"ECONNREFUSED", "ENOTFOUND"}

\* C21 as stated: every failure a public operation reports is one of the
\* five typed errors.
C21_AsStated ==
    (result.op \in FacadeOps /\ result.status = "rejected") =>
        result.error[1].cls \in TypedClasses

\* C21: every failure a public operation reports is one of the five typed
\* errors, holding the error it was made from, or an error that no rule of
\* the classifier applies to, reported as it was thrown: a generic Error or a
\* transport error with an unlisted HTTP status.
C21_TypedOrUnclassifiable ==
    (result.op \in FacadeOps /\ result.status = "rejected") =>
        LET e == result.error[1]
        IN  \/ e.cls \in TypedClasses /\ e.orig # <<>>
            \/ e.cls = "Error" /\ e.orig = <<>> /\ Unclassifiable(e)

C21_Witness ==
    /\ result.op = "maxMarginalRelevanceSearch"
    /\ result.status = "rejected"
    /\ result.error[1].cls = "LambdaDBRateLimitError"
    /\ result.error[1].retryAfter = <<2>>

\* C22 as stated: in a store operation, withRetry gives up on a failure with
\* HTTP status 500, 502, 503, 504 or 429 only at the last attempt, and never
\* waits to retry after a failure with status 400, 401 or 404.
C22_AsStated ==
    (retry.fn \in {"upsert", "query", "create"} /\ retry.lastError # <<>>) =>
        LET status == retry.lastError[1].status
        IN  /\ (/\ status \in {500, 502, 503, 504, 429}
                /\ retry.outcome = "threw") =>
                   retry.attempt >= retry.config.maxAttempts
            /\ status \in {400, 401, 404} => pc # "retry_sleep"

\* C23 as stated: whenever a remote call of the store is in flight, it was
\* made by withRetry.
C23_AsStated ==
    pc \in {"retry_call", "info_fetch", "wait_fetch", "ensure_list",
            "delete_collection", "delete_docs"} =>
        Top(frames) = "withRetry"

C29_DeleteDispatch ==
    result.op = "deleteDocuments" =>
        LET options == av.del[1]
            hasIds == options.ids # <<>> /\ Len(options.ids[1]) > 0
        IN  /\ (~options.deleteAll /\ hasIds) =>
                   /\ pc \in {"delete_docs", "idle"}
                   /\ pc = "delete_docs" =>
                          requests = <<>> /\ av.ids = options.ids[1]
                   /\ pc = "idle" =>
                          /\ Len(requests) = 1
                          /\ requests[1].op = "docs.delete"
                          /\ requests[1].body.ids = options.ids[1]
                   /\ NoRemoteCall
            /\ (~options.deleteAll /\ ~hasIds /\ options.filter # <<>>
                    /\ options.filter[1].kind = "object") =>
                   /\ pc = "idle"
                   /\ result.status = "rejected"
                   /\ result.error[1].message =
                          <<"Delete operations only support",
                            "function-based filters, not object filters">>
                   /\ requests = <<>>
                   /\ NoRemoteCall
            /\ (~options.deleteAll /\ ~hasIds /\ options.filter = <<>>) =>
                   /\ pc = "idle"
                   /\ result.status = "rejected"
                   /\ result.error[1].message =
                          <<"Must provide either ids, filter, or",
                            "deleteAll option">>
                   /\ requests = <<>>
                   /\ NoRemoteCall
            /\ (options.deleteAll /\ hasIds) =>
                   /\ pc = "idle"
                   /\ result.status = "resolved"
                   /\ requests = <<>>

C29_Witness ==
    /\ result.op = "deleteDocuments"
    /\ ~av.del[1].deleteAll
    /\ av.del[1].ids = <<<<"b", "a">>>>
    /\ av.del[1].filter # <<>>
    /\ result.status = "resolved"
    /\ requests[1].body.ids = <<"b", "a">>
    /\ requests[1].ok

----------------------------------------------------------------------------
(* Properties of the schema translation, checked under SpecTranslate. *)

----------------------------------------------------------------------------
(* C37 is checked under Spec.                                              *)

\* C37 as stated: one ensureCollectionExists call invokes createCollection
\* at most once, either after a successful list call that does not contain
\* the configured name or as the fallback after the list call failed, never
\* both: a create that fails after a successful list is not attempted again.
C37_AsStated ==
    ens.stage # "none" =>
        /\ ens.creates <= 1
        /\ ens.creates = 1 =>
               \/ ens.listed = "absent" /\ ens.stage = "try"
               \/ ens.listed = "failed" /\ ens.stage = "catch"

----------------------------------------------------------------------------
(* C39 is checked under SpecData.                                          *)

\* C39: addVectors is not atomic across chunks: when the upsert of chunk N
\* has finally failed (the failure is not retryable or it was the last
\* attempt), addVectors is rejected with that failure after classification,
\* no request of a chunk after N was sent, every chunk before N was upserted
\* by a request that succeeded, and no delete request was made to undo them.
C39_PartialUpsert ==
    (/\ result.op = "addVectors"
     /\ pc = "idle"
     /\ upserts # <<>>
     /\ ~upserts[Len(upserts)].ok) =>
        LET last == upserts[Len(upserts)]
        IN  /\ result.status = "rejected"
            /\ retry.fn = "upsert"
            /\ retry.outcome = "threw"
            /\ \/ last.attempt = retry.config.maxAttempts
               \/ ~IsRetryable(retry.config, retry.lastError[1])
            /\ result.error = <<handleLambdaDBError(retry.lastError[1])>>
            /\ last.batch = av.batch + 1
            /\ \A r \in DOMAIN upserts : upserts[r].batch <= last.batch
            /\ \A b \in 1..(last.batch - 1) :
                   \E r \in DOMAIN upserts :
                       /\ upserts[r].batch = b
                       /\ upserts[r].ok
                       /\ upserts[r].docs = av.batches[b]
            /\ requests = <<>>

C39_Witness ==
    /\ result.op = "addVectors"
    /\ pc = "idle"
    /\ result.status = "rejected"
    /\ Len(av.batches) = 3
    /\ upserts[Len(upserts)].batch = 2
    /\ ~upserts[Len(upserts)].ok
    /\ upserts[1].ok
    /\ upserts[1].batch = 1

----------------------------------------------------------------------------
(* C38 is checked under SpecClassify.                                      *)

\* C38: classification is idempotent: classifying the error that
\* handleLambdaDBError returned for a raw error returns that same error, so
\* its class, its message, its retryAfter and the original error it holds
\* are those of the first classification.
C38_Idempotent ==
    (result.op = "handleLambdaDBError" /\ Len(result.error) = 2) =>
        /\ result.error[2] = result.error[1]
        /\ result.error[2].cls = result.error[1].cls
        /\ result.error[2].orig = result.error[1].orig
        /\ result.error[1].cls \in TypedClasses =>
               result.error[2].orig = <<result.arg[1]>>

C38_Witness ==
    /\ result.op = "handleLambdaDBError"
    /\ Len(result.error) = 2
    /\ result.arg[1].status = 429
    /\ result.arg[1].hdr = <<<<"3", "0">>>>
    /\ result.error[2].cls = "LambdaDBRateLimitError"
    /\ result.error[2].retryAfter = <<30>>
    /\ result.error[2].orig = <<result.arg[1]>>

----------------------------------------------------------------------------
(* C35 is checked under SpecTranslate, C34 under SpecQuery.                *)

\* C35 as stated: the wire document has an id, the text under the name of
\* the text field, the vector under the name of the vector field and every
\* metadata entry; only a metadata key equal to id, the text field's name or
\* the vector field's name replaces the generated id, the text or the vector,
\* and the id is the generated one exactly when no metadata key is id.
C35_AsStated ==
    result.op = "roundTrip" =>
        LET doc == result.arg[1]
            wire == av.batches[1][1]
            textField == storeConfig.textField
            vectorField == storeConfig.vectorField
        IN  /\ DOMAIN wire =
                   {"id", textField, vectorField} \cup DOMAIN doc.metadata
            /\ \A key \in DOMAIN doc.metadata : wire[key] = doc.metadata[key]
            /\ textField \notin DOMAIN doc.metadata =>
                   wire[textField] = doc.pageContent
            /\ vectorField \notin DOMAIN doc.metadata =>
                   wire[vectorField] = "v"
            /\ wire["id"] = "id1" <=> "id" \notin DOMAIN doc.metadata

\* C35: the wire document has the fields id, the text field, the vector
\* field and every metadata key; every metadata entry is in it with its
\* value, replacing the generated id, the text or the vector when its key is
\* id, the text field's name or the vector field's name; without such a key
\* the vector is under the vector field's name, the text under the text
\* field's name unless the vector field has the same name (then the vector
\* replaces the text), and the id is the generated one exactly when no
\* metadata key is id.
C35_MetadataLast ==
    result.op = "roundTrip" =>
        LET doc == result.arg[1]
            wire == av.batches[1][1]
            textField == storeConfig.textField
            vectorField == storeConfig.vectorField
        IN  /\ DOMAIN wire =
                   {"id", textField, vectorField} \cup DOMAIN doc.metadata
            /\ \A key \in DOMAIN doc.metadata : wire[key] = doc.metadata[key]
            /\ (/\ textField \notin DOMAIN doc.metadata
                /\ textField # vectorField) =>
                   wire[textField] = doc.pageContent
            /\ vectorField \notin DOMAIN doc.metadata =>
                   wire[vectorField] = "v"
            /\ wire["id"] = "id1" <=> "id" \notin DOMAIN doc.metadata

C35_Witness ==
    /\ result.op = "roundTrip"
    /\ storeConfig.textField = "text"
    /\ storeConfig.vectorField = "emb"
    /\ result.arg[1].pageContent = "hello"
    /\ DOMAIN result.arg[1].metadata = {"id", "emb"}
    /\ av.batches[1][1] = [id |-> "m", text |-> "hello", emb |-> "m"]

\* C34 as stated: the metadata of every document a search returns holds no
\* text field, no vector field under its configured name, no field vector or
\* embedding and no id, and holds every other field of the wire document
\* unchanged.
C34_AsStated ==
    (/\ result.op = "similaritySearchVectorWithScore"
     /\ result.status = "resolved") =>
        \A i \in 1..Len(result.value) :
            LET wire == ResponseDocs[i].doc
                metadata == result.value[i][1].metadata
                removed == {storeConfig.textField, storeConfig.vectorField,
                            "vector", "embedding", "id"}
            IN  /\ DOMAIN metadata \cap removed = {}
                /\ \A key \in DOMAIN wire \ removed :
                       /\ key \in DOMAIN metadata
                       /\ metadata[key] = wire[key]

----------------------------------------------------------------------------
(* C32 is checked under SpecWait.                                          *)

\* The errors a failed status fetch throws: getCollectionInfo classifies the
\* failure of its collections.get call.
FetchFailures ==
    {handleLambdaDBError(error) : error \in RemoteFailures \cup {NotFound}}

----------------------------------------------------------------------------
(* C33 is checked under SpecQuery.                                         *)

\* lambda * (1 - i/n) + (1 - lambda) * (i/n) for the candidate of index i
\* (from 0) of n and lambda = lambda4 / 4, times 4n.
ClaimedScore(i, n, lambda4) == lambda4 * (n - i) + (4 - lambda4) * i

----------------------------------------------------------------------------
(* C31 is checked under SpecConstruct.                                     *)

----------------------------------------------------------------------------
(* C36 is checked under SpecRace.                                          *)

\* An addVectors call that is over did not fail in ensureCollectionExists:
\* it issued its upsert, it was rejected only by the final failure of that
\* upsert, and when none of its createCollection calls returned it created
\* twice and ignored the second failure.
PastEnsure(c) ==
    (c.result.op = "addVectors" /\ c.pc = "idle") =>
        /\ c.result.status \in {"resolved", "rejected"}
        /\ c.ens.stage # "none"
        /\ c.retry.fn = "upsert"
        /\ c.retry.calls >= 1
        /\ c.result.status = "rejected" => c.retry.outcome = "threw"
        /\ c.result.status = "resolved" => c.retry.outcome = "returned"
        /\ (c.ens.listed # "found" /\ ~c.ens.awaited) =>
               /\ c.ens.swallowed
               /\ c.ens.creates \in {1, 2}

\* C36: of two addVectors calls that run concurrently against an absent
\* collection, under every interleaving neither fails because of the
\* creation of the collection: the failure of the create call of the caller
\* that lost the race is swallowed and each call issues its upsert request.
C36_RaceSwallowed ==
    /\ PastEnsure(Ctl)
    /\ PastEnsure(other)
    /\ (/\ result.op = "addVectors" /\ pc = "idle"
        /\ other.result.op = "addVectors" /\ other.pc = "idle") =>
           /\ Len(upserts) >= 2
           /\ Len(upserts) = retry.calls + other.retry.calls

C36_Witness ==
    /\ result.op = "addVectors" /\ pc = "idle"
    /\ other.result.op = "addVectors" /\ other.pc = "idle"
    /\ result.status = "resolved"
    /\ other.result.status = "resolved"
    /\ ens.listed = "absent" /\ ens.creates = 2 /\ ens.swallowed
    /\ retry.lastError = <<>>
    /\ other.ens.listed = "absent" /\ other.ens.creates = 1
    /\ other.ens.awaited
    /\ Len(upserts) = 2
    /\ upserts[1].ok /\ upserts[2].ok

=============================================================================
